---- MODULE Spec2Model ----
(***************************************************************************)
(* Bani-AI: the streaming Shabad tracker (backend/shabad_confirmation.py)  *)
(* and the corpus searches (backend/main.py fuzzy_search_sggs,             *)
(* Tools/FuzzySearchComparison/backend/fuzzy_search.py).                   *)
(***************************************************************************)
EXTENDS Integers, Sequences, FiniteSets, TLC

(***************************************************************************)
(* Bounds of the exploration.                                              *)
(***************************************************************************)
\* the word buffer is explored up to this many words
MaxBuf == 10
\* a transcription chunk holds at most this many tokens (words or blanks)
MaxChunk == 2
\* SGGS.txt holds at most this many lines
MaxLines == 2
\* a line of SGGS.txt holds at most this many characters
MaxLineLen == 2
\* a search query holds at most this many characters
MaxQueryLen == 1
\* the comparison tool's corpus holds at most this many lines
MaxToolLines == 4

\* the most lines the match engine's corpus has
MaxSpanLines == 4

\* the number of lines of the indexed corpus
MaxIndexLines == 6

\* the most entries the matcher's sggs_data has
MaxEntries == 4
\* the most lines of the file the index builders read
MaxFileLines == 3

(***************************************************************************)
(* ShabadTracker: tunable parameters set by __init__.                      *)
(***************************************************************************)
MAX_FAILURES == 3
INTERIM_WORD_CHECK == 8
LOCAL_THRESHOLD == 60
GLOBAL_THRESHOLD == 65

\* Python's None, as the value of an Optional[str]
None == "None"
\* a search collaborator's "no match" (None, falsy)
NoResult == [none |-> TRUE]

\* the words a transcription is made of, and the blank between them
Words == {"w"}
Blank == " "
Tokens == Words \cup {Blank}

\* section ids, lines and scores the search collaborators may answer with
ShabadIds == {"5", "9"}
Lines == {"l1"}
GlobalScores == {64, 65}
LocalScores == {59, 60}

\* what global_search may return: no match, or a result dict
GlobalResults ==
    {NoResult} \cup [shabad_id : ShabadIds, line : Lines, score : GlobalScores]

\* what local_search(id, query) may return: no match, or a result dict of
\* that section
LocalResults(id) ==
    {NoResult} \cup [shabad_id : {id}, line : Lines, score : LocalScores]

\* all sequences over S of length at most n
RECURSIVE SeqsUpTo(_, _)
SeqsUpTo(S, n) ==
    IF n = 0 THEN {<<>>}
    ELSE LET shorter == SeqsUpTo(S, n - 1)
         IN  shorter \cup {Append(s, x) : s \in {q \in shorter : Len(q) = n - 1}, x \in S}

\* the transcription chunks fed to process_chunk
Chunks == SeqsUpTo(Tokens, MaxChunk)

\* str.split(): the words of a chunk, blanks dropped
split(chunk) == SelectSeq(chunk, LAMBDA c : c # Blank)

\* " ".join(words)
RECURSIVE join(_)
join(words) ==
    IF Len(words) = 0 THEN <<>>
    ELSE IF Len(words) = 1 THEN words
    ELSE <<Head(words), Blank>> \o join(Tail(words))

\* word_buffer[-n:]
LastN(buf, n) ==
    IF Len(buf) <= n THEN buf ELSE SubSeq(buf, Len(buf) - n + 1, Len(buf))


(***************************************************************************)
(* backend/main.py: SGGS.txt and fuzzy_search_sggs.  A string is the       *)
(* sequence of its characters.                                             *)
(***************************************************************************)
Chars == {"a", "b"}

\* Optional[str] None for a line
NoLine == <<None>>

\* the raw lines SGGS.txt may hold
Strings == SeqsUpTo(Chars \cup {Blank}, MaxLineLen)

\* the contents SGGS.txt may have
Files == SeqsUpTo(Strings, MaxLines)

\* the queries and thresholds fuzzy_search_sggs is called with
Queries == SeqsUpTo(Chars \cup {Blank}, MaxQueryLen)
Thresholds == {40, 100}

\* str.strip()
RECURSIVE lstrip(_)
lstrip(str) ==
    IF Len(str) > 0 /\ Head(str) = Blank THEN lstrip(Tail(str)) ELSE str

RECURSIVE rstrip(_)
rstrip(str) ==
    IF Len(str) > 0 /\ str[Len(str)] = Blank
    THEN rstrip(SubSeq(str, 1, Len(str) - 1)) ELSE str

strip(str) == rstrip(lstrip(str))

\* the list comprehension that loads SGGS.txt: the stripped non-blank lines
load_sggs(file) ==
    LET stripped == [i \in 1..Len(file) |-> strip(file[i])]
    IN  SelectSeq(stripped, LAMBDA line : line # <<>>)

\* length of a longest common subsequence
RECURSIVE LCS(_, _)
LCS(s1, s2) ==
    IF Len(s1) = 0 \/ Len(s2) = 0 THEN 0
    ELSE IF Head(s1) = Head(s2) THEN 1 + LCS(Tail(s1), Tail(s2))
    ELSE LET x == LCS(Tail(s1), s2)
             y == LCS(s1, Tail(s2))
         IN  IF x >= y THEN x ELSE y

RECURSIVE LCM1To(_)
GCD(a, b) ==
    LET RECURSIVE g(_, _)
        g(x, y) == IF y = 0 THEN x ELSE g(y, x % y)
    IN  g(a, b)
LCM1To(n) == IF n <= 1 THEN 1 ELSE LET l == LCM1To(n - 1) IN (l * n) \div GCD(l, n)

\* scores are kept exact: a score of p points is the integer p * Scale,
\* Scale being a common multiple of every len(s1) + len(s2)
Scale == LCM1To(MaxLineLen + MaxQueryLen)
Pts(p) == p * Scale

\* rapidfuzz fuzz.ratio: 100 * (1 - indel_distance / (len(s1) + len(s2))),
\* 100 for two empty strings
ratio(s1, s2) ==
    LET lensum == Len(s1) + Len(s2)
        dist == lensum - 2 * LCS(s1, s2)
    IN  IF lensum = 0 THEN Pts(100)
        ELSE Pts(100) - (Pts(100) * dist) \div lensum

\* the scan with < where the code has >
RECURSIVE scan_flipped(_, _, _, _, _, _)
scan_flipped(lines, query, i, best_score, best_line, scored) ==
    IF i > Len(lines)
    THEN [best_score |-> best_score, best_line |-> best_line, scored |-> scored]
    ELSE LET score == ratio(query, lines[i])
         IN  IF score < best_score
             THEN scan_flipped(lines, query, i + 1, score, lines[i], scored + 1)
             ELSE scan_flipped(lines, query, i + 1, best_score, best_line, scored + 1)

\* the for loop of fuzzy_search_sggs from line i on; scored counts the
\* lines fuzz.ratio was called on
RECURSIVE scan(_, _, _, _, _, _)
scan(lines, query, i, best_score, best_line, scored) ==
    IF i > Len(lines)
    THEN [best_score |-> best_score, best_line |-> best_line, scored |-> scored]
    ELSE LET score == ratio(query, lines[i])
         IN  IF score > best_score
             THEN scan(lines, query, i + 1, score, lines[i], scored + 1)
             ELSE scan(lines, query, i + 1, best_score, best_line, scored + 1)

\* fuzzy_search_sggs without the test of the stripped query
fuzzy_search_sggs_unguarded(loaded, lines, query, threshold) ==
    IF ~loaded
    THEN [result |-> <<>>, scored |-> 0]
    ELSE LET s == scan(lines, query, 1, Pts(-1), NoLine, 0)
         IN  IF s.best_score >= Pts(threshold)
             THEN [result |-> << <<s.best_line, s.best_score>> >>, scored |-> s.scored]
             ELSE [result |-> IF s.best_line # NoLine /\ s.best_line # <<>>
                              THEN << <<s.best_line, s.best_score>> >>
                              ELSE <<>>,
                   scored |-> s.scored]

\* fuzzy_search_sggs(query, threshold) over the loaded corpus
fuzzy_search_sggs(loaded, lines, query, threshold) ==
    IF ~loaded \/ strip(query) = <<>>
    THEN [result |-> <<>>, scored |-> 0]
    ELSE LET s == scan(lines, query, 1, Pts(-1), NoLine, 0)
         IN  IF s.best_score >= Pts(threshold)
             THEN [result |-> << <<s.best_line, s.best_score>> >>, scored |-> s.scored]
             ELSE [result |-> IF s.best_line # NoLine /\ s.best_line # <<>>
                              THEN << <<s.best_line, s.best_score>> >>
                              ELSE <<>>,
                   scored |-> s.scored]


(***************************************************************************)
(* Tools/FuzzySearchComparison/backend/fuzzy_search.py:                    *)
(* FuzzySearchComparator.                                                  *)
(***************************************************************************)
\* a punctuation mark normalize_text removes
Punct == "."

\* "ab cd.", "ab ef." and "......": lines as _load_sggs keeps them (stripped,
\* single-spaced, longer than 5 characters)
ToolLines ==
    { <<"a", "b", Blank, "c", "d", Punct>>,
      <<"a", "b", Blank, "e", "f", Punct>>,
      <<Punct, Punct, Punct, Punct, Punct, Punct>> }

\* "ab", "ab cd ab cd" and "gh gh gh gh": a short query, and two of at least
\* 10 characters, with and without a word of the corpus
ToolQueries ==
    { <<"a", "b">>,
      <<"a", "b", Blank, "c", "d", Blank, "a", "b", Blank, "c", "d">>,
      <<"g", "h", Blank, "g", "h", Blank, "g", "h", Blank, "g", "h">> }

\* re.sub(r'\s+', ' ', text): runs of blanks become one blank
RECURSIVE collapse(_)
collapse(str) ==
    IF Len(str) <= 1 THEN str
    ELSE IF str[1] = Blank /\ str[2] = Blank THEN collapse(Tail(str))
    ELSE <<Head(str)>> \o collapse(Tail(str))

\* FuzzySearchComparator.normalize_text (NFKD leaves these characters alone)
normalize_text(text) ==
    collapse(strip(SelectSeq(text, LAMBDA c : c # Punct)))

\* set(text.split()): the set of the words of a string
RECURSIVE words_from(_, _)
words_from(str, word) ==
    IF Len(str) = 0 THEN (IF word = <<>> THEN {} ELSE {word})
    ELSE IF Head(str) = Blank
    THEN (IF word = <<>> THEN {} ELSE {word}) \cup words_from(Tail(str), <<>>)
    ELSE words_from(Tail(str), Append(word, Head(str)))

word_set(str) == words_from(str, <<>>)

\* the keys of the individual scores
Methods == {"ratio", "partial_ratio", "token_sort_ratio", "token_set_ratio", "wratio"}

\* what the five rapidfuzz scorers may answer for one line
ScoreProfiles ==
    { [m \in Methods |-> 100],
      [m \in Methods |-> IF m \in {"partial_ratio", "token_set_ratio"} THEN 100
                         ELSE IF m = "wratio" THEN 90 ELSE 40],
      [m \in Methods |-> 20] }

\* the weights a caller may pass: the request's dict is handed over as it
\* comes, so a weight may be 0 or negative and may name no scorer
WeightChoices ==
    { [ratio |-> 1],
      [ratio |-> 3, partial_ratio |-> 4, token_set_ratio |-> 3],
      [ratio |-> 1, jaro |-> 1],
      [ratio |-> 0],
      [ratio |-> -1, partial_ratio |-> 2] }

TopKs == {1, 2}

RECURSIVE SumOver(_, _)
SumOver(S, f) ==
    IF S = {} THEN 0
    ELSE LET x == CHOOSE y \in S : TRUE IN f[x] + SumOver(S \ {x}, f)

\* least common multiple of the positive numbers of S
RECURSIVE LCMOf(_)
LCMOf(S) ==
    IF S = {} THEN 1
    ELSE LET x == CHOOSE y \in S : TRUE
             l == LCMOf(S \ {x})
         IN  IF x <= 0 THEN l ELSE (l * x) \div GCD(l, x)

\* weighted scores are kept exact: p points is the integer p * WScale, WScale
\* being a common multiple of the total weights
WScale == LCMOf({SumOver(DOMAIN w, w) : w \in WeightChoices})
WPts(p) == p * WScale

\* FuzzySearchComparator.calculate_weighted_score
calculate_weighted_score(scores, weights) ==
    LET total_weight == SumOver(DOMAIN weights, weights)
        counted == DOMAIN weights \cap DOMAIN scores
        weighted_sum == SumOver(counted, [m \in counted |-> scores[m] * weights[m]])
    IN  IF total_weight = 0 THEN 0
        ELSE (WPts(weighted_sum)) \div total_weight

\* the candidates search_with_weights pre-filters, as <<i, line, line_norm>>
\* with i counted from 0, in corpus order
RECURSIVE prefilter(_, _, _)
prefilter(lines, query_norm, i) ==
    IF i >= Len(lines) THEN <<>>
    ELSE LET line == lines[i + 1]
             line_norm == normalize_text(line)
             overlap == Cardinality(word_set(query_norm) \cap word_set(line_norm))
             rest == prefilter(lines, query_norm, i + 1)
         IN  IF Len(line_norm) < 3 THEN rest
             ELSE IF overlap > 0 \/ Len(query_norm) < 10
             THEN <<[i |-> i, line |-> line, line_norm |-> line_norm]>> \o rest
             ELSE rest

\* the candidate limit of search_with_weights
CANDIDATE_LIMIT == 5000

\* all orderings of all n-element subsets of S
RECURSIVE Arrangements(_, _)
Arrangements(S, n) ==
    IF n = 0 THEN {<<>>}
    ELSE UNION {{<<x>> \o a : a \in Arrangements(S \ {x}, n - 1)} : x \in S}

\* the candidate lists the scoring loop may get: the candidates themselves,
\* or any random.sample of CANDIDATE_LIMIT of them when there are more
Sampled(candidates) ==
    IF Len(candidates) > CANDIDATE_LIMIT
    THEN Arrangements({candidates[k] : k \in 1..Len(candidates)}, CANDIDATE_LIMIT)
    ELSE {candidates}

\* the least entry of the heap: tuples compare by score, then by i
HeapMin(heap) ==
    CHOOSE e \in heap : \A o \in heap :
        \/ e.weighted_score < o.weighted_score
        \/ e.weighted_score = o.weighted_score /\ e.i <= o.i

\* the scoring loop of search_with_weights from candidate k on; the heap is
\* the set of its entries
RECURSIVE score_loop(_, _, _, _, _, _)
score_loop(candidates, k, fuzz, weights, top_k, heap) ==
    IF k > Len(candidates) THEN heap
    ELSE LET c == candidates[k]
             individual_scores == fuzz[c.line_norm]
             weighted_score == calculate_weighted_score(individual_scores, weights)
             entry == [weighted_score |-> weighted_score, i |-> c.i,
                       result |-> [line_number |-> c.i + 1, text |-> c.line,
                                   weighted_score |-> weighted_score,
                                   individual_scores |-> individual_scores]]
             next_heap ==
                 IF weighted_score > WPts(30)
                 THEN IF Cardinality(heap) < top_k * 3 THEN heap \cup {entry}
                      ELSE IF weighted_score > HeapMin(heap).weighted_score
                      THEN (heap \ {HeapMin(heap)}) \cup {entry}
                      ELSE heap
                 ELSE heap
         IN  score_loop(candidates, k + 1, fuzz, weights, top_k, next_heap)

\* sorted(top_results, reverse=True): the greatest tuple first
RECURSIVE sorted_reverse(_)
sorted_reverse(heap) ==
    IF heap = {} THEN <<>>
    ELSE LET m == HeapMin(heap) IN Append(sorted_reverse(heap \ {m}), m)

\* search_with_weights once the candidates to score are drawn; fuzz gives
\* the individual scores of each normalized line against the query
search_with_weights(scoring, fuzz, weights, top_k) ==
    LET top_results == score_loop(scoring, 1, fuzz, weights, top_k, {})
        ordered == sorted_reverse(top_results)
        results == [k \in 1..Len(ordered) |-> ordered[k].result]
    IN  SubSeq(results, 1, IF Len(results) < top_k THEN Len(results) ELSE top_k)

(***************************************************************************)
(* The Match Engine's span extension (spec 4.3 b-e): the lines of the      *)
(* corpus are 1..n, a window is <<start, end>>, and score gives the        *)
(* weighted score of each window's concatenated text for the query (the    *)
(* score of <<i, i>> is line i's own).                                     *)
(***************************************************************************)
EARLY_EXIT == 95
DECENT_FLOOR == 55
MAX_ANCHORS == 3
MAX_SPAN_EXTRA == 2

\* the spans of n lines: start <= end, end - start <= 2
SpanWindows(n) ==
    {w \in (1..n) \X (1..n) : w[1] <= w[2] /\ w[2] - w[1] <= MAX_SPAN_EXTRA}

\* weighted scores a line may have, and a span of several lines
LineScoreValues == {40, 70, 96}
SpanScoreValues == {60, 98}

\* the score tables of a corpus of n lines
SpanScores(n) ==
    LET singles == {w \in SpanWindows(n) : w[1] = w[2]}
        multis == SpanWindows(n) \ singles
    IN  {l @@ m : l \in [singles -> LineScoreValues], m \in [multis -> SpanScoreValues]}

\* step b: the candidates scored, in order, up to the first that reaches
\* the early exit
RECURSIVE score_candidates(_, _, _, _)
score_candidates(score, n, i, acc) ==
    IF i > n THEN acc
    ELSE IF score[<<i, i>>] >= EARLY_EXIT THEN Append(acc, i)
    ELSE score_candidates(score, n, i + 1, Append(acc, i))

\* step d: up to k best-scoring lines of S, best first, ties by earliest line
RECURSIVE best_anchors(_, _, _)
best_anchors(score, S, k) ==
    IF S = {} \/ k = 0 THEN <<>>
    ELSE LET b == CHOOSE i \in S : \A j \in S :
                      \/ score[<<i, i>>] > score[<<j, j>>]
                      \/ score[<<i, i>>] = score[<<j, j>>] /\ i <= j
         IN  <<b>> \o best_anchors(score, S \ {b}, k - 1)

\* the six windows of an anchor, in the order they are generated
windows_of(a) ==
    << <<a, a>>, <<a, a + 1>>, <<a - 1, a>>, <<a - 1, a + 1>>, <<a, a + 2>>, <<a - 2, a>> >>

\* the windows to try, anchor after anchor
RECURSIVE windows_to_try(_, _)
windows_to_try(anchors, k) ==
    IF k > Len(anchors) THEN <<>>
    ELSE [j \in 1..6 |-> [anchor |-> anchors[k], window |-> windows_of(anchors[k])[j]]]
         \o windows_to_try(anchors, k + 1)

\* span extension that lets every window scored replace the result
RECURSIVE span_extension_last_wins(_, _, _, _, _, _)
span_extension_last_wins(score, n, todo, k, best, seen) ==
    IF k > Len(todo) THEN best
    ELSE LET w == todo[k].window
         IN  IF w[1] < 1 \/ w[2] > n \/ w \in seen
             THEN span_extension_last_wins(score, n, todo, k + 1, best, seen)
             ELSE span_extension_last_wins(score, n, todo, k + 1,
                      [start |-> w[1], end |-> w[2],
                       anchor |-> todo[k].anchor, score |-> score[w]],
                      seen \cup {w})

\* step d: the windows are scored in turn, out-of-range ones and ones already
\* scored are skipped, and a span replaces the result if it scores higher
RECURSIVE span_extension(_, _, _, _, _, _)
span_extension(score, n, todo, k, best, seen) ==
    IF k > Len(todo) THEN best
    ELSE LET w == todo[k].window
         IN  IF w[1] < 1 \/ w[2] > n \/ w \in seen
             THEN span_extension(score, n, todo, k + 1, best, seen)
             ELSE span_extension(score, n, todo, k + 1,
                      IF score[w] > best.score
                      THEN [start |-> w[1], end |-> w[2],
                            anchor |-> todo[k].anchor, score |-> score[w]]
                      ELSE best,
                      seen \cup {w})

\* search(query, threshold) over n lines, all of them candidates
search(score, n, threshold) ==
    LET scored == score_candidates(score, n, 1, <<>>)
        anchors == best_anchors(score, {scored[k] : k \in 1..Len(scored)}, MAX_ANCHORS)
    IN  IF anchors = <<>> THEN NoResult
        ELSE LET a == anchors[1]
                 anchor_only == [start |-> a, end |-> a, anchor |-> a,
                                 score |-> score[<<a, a>>]]
             IN  IF anchor_only.score >= threshold \/ anchor_only.score >= DECENT_FLOOR
                 THEN span_extension(score, n, windows_to_try(anchors, 1), 1,
                                     anchor_only, {})
                 ELSE NoResult

(***************************************************************************)
(* The Candidate Retriever (spec 4.2), get_candidate_lines_from_index in   *)
(* backend/test_enhanced_fuzzy.py: a query is the sequence of its words,   *)
(* the index maps each token to the set of the lines that hold it.         *)
(***************************************************************************)
EXACT_WORD_INTERSECTION_MIN == 5
FUZZY_WORD_THRESHOLD == 80
FUZZY_WORD_MAX_MATCHES == 3

\* the tokens an index may hold, and the ids of the corpus lines
IndexTokens == {"sat", "nam"}
IndexLineIds == 1..MaxIndexLines

\* the indexes: some of the tokens, each with the lines that hold it
Indexes ==
    UNION {[tokens -> (SUBSET IndexLineIds) \ {{}}] : tokens \in SUBSET IndexTokens}

\* the queries: of one, two and three words, of index tokens, of the
\* misheard "sata" and of the two-letter "sa"
IndexQueries ==
    { <<"sat">>, <<"sata">>, <<"sa">>,
      <<"sat", "nam">>, <<"nam", "sat">>, <<"sat", "sata">>, <<"sa", "nam">>,
      <<"sat", "nam", "sat">>, <<"sata", "sa", "sata">> }

\* the posting set of a word, empty for a word that is no token
posting(index, word) == IF word \in DOMAIN index THEN index[word] ELSE {}

\* the exact-token stage always intersecting
RECURSIVE exact_token_stage_intersect_only(_, _, _, _)
exact_token_stage_intersect_only(index, words, k, running) ==
    IF k > Len(words) THEN running
    ELSE IF k = 1
    THEN exact_token_stage_intersect_only(index, words, 2, posting(index, words[1]))
    ELSE exact_token_stage_intersect_only(index, words, k + 1,
                                          running \cap posting(index, words[k]))

\* stage 1: seeded with the first word's posting set, each further word
\* intersects the running set, or is united with it when the intersection
\* has fewer than EXACT_WORD_INTERSECTION_MIN lines
RECURSIVE exact_token_stage(_, _, _, _)
exact_token_stage(index, words, k, running) ==
    IF k > Len(words) THEN running
    ELSE IF k = 1 THEN exact_token_stage(index, words, 2, posting(index, words[1]))
    ELSE LET intersection == running \cap posting(index, words[k])
         IN  exact_token_stage(index, words, k + 1,
                 IF Cardinality(intersection) < EXACT_WORD_INTERSECTION_MIN
                 THEN running \cup posting(index, words[k])
                 ELSE intersection)

\* 0.7 x partial-ratio + 0.3 x token-set-ratio of a word against a token, as
\* the scorer answers: the word itself 100, "sata" 80 against "sat", else 79
fuzzy_word_score(word, token) ==
    IF word = token THEN 100
    ELSE IF word = "sata" /\ token = "sat" THEN 80
    ELSE 79

\* the k best of the tokens S for the word, ties by token order
RECURSIVE best_tokens(_, _, _)
best_tokens(word, S, k) ==
    IF S = {} \/ k = 0 THEN {}
    ELSE LET b == CHOOSE t \in S : \A u \in S :
                      fuzzy_word_score(word, t) >= fuzzy_word_score(word, u)
         IN  {b} \cup best_tokens(word, S \ {b}, k - 1)

\* get_fuzzy_word_matches: the tokens that score at least the fuzzy-word
\* threshold for the word, the best FUZZY_WORD_MAX_MATCHES of them
get_fuzzy_word_matches(index, word) ==
    best_tokens(word,
                {t \in DOMAIN index : fuzzy_word_score(word, t) >= FUZZY_WORD_THRESHOLD},
                FUZZY_WORD_MAX_MATCHES)

\* stage 2: the posting sets of the fuzzy matches of each word longer than
\* 2 characters
fuzzy_token_stage(index, words) ==
    UNION {index[t] : t \in UNION {get_fuzzy_word_matches(index, words[k]) :
                                      k \in {j \in 1..Len(words) : Len(words[j]) > 2}}}

\* the tiers with the fuzzy-token stage tried before the exact-token stage
get_candidate_lines_from_index_fuzzy_first(index, words) ==
    LET exact == exact_token_stage(index, words, 1, {})
        fuzzy == fuzzy_token_stage(index, words)
    IN  IF fuzzy # {} THEN [stage |-> 2, lines |-> fuzzy]
        ELSE IF exact # {} THEN [stage |-> 1, lines |-> exact]
        ELSE [stage |-> 3, lines |-> IndexLineIds]

\* the three tiers: each stage is tried only if the ones before gave nothing,
\* and the full scan hands every line of the corpus to scoring
get_candidate_lines_from_index(index, words) ==
    LET exact == exact_token_stage(index, words, 1, {})
        fuzzy == fuzzy_token_stage(index, words)
    IN  IF exact # {} THEN [stage |-> 1, lines |-> exact]
        ELSE IF fuzzy # {} THEN [stage |-> 2, lines |-> fuzzy]
        ELSE [stage |-> 3, lines |-> IndexLineIds]

(***************************************************************************)
(* backend/main.py: one message on the /ws/transcription connection, and   *)
(* matcher.py: fuzzy_match_local_sggs.                                     *)
(***************************************************************************)
\* what search_banidb_api may answer: no results, or some
BaniDBResults == {<<>>, <<"verse">>}

\* no message sent
NoResponse == [type |-> None]

\* the handler with > where the code has >=
websocket_endpoint_strict(found, loaded, lines, text, threshold, first, fallback) ==
    IF found THEN [top_result_found |-> found, sent |-> FALSE, response |-> NoResponse]
    ELSE LET fuzzy_matches == fuzzy_search_sggs(loaded, lines, text, threshold).result
             matched == fuzzy_matches # <<>>
             matched_line == IF matched THEN fuzzy_matches[1][1] ELSE NoLine
             score == IF matched THEN fuzzy_matches[1][2] ELSE None
             sggs_match_found == matched /\ score > Pts(threshold)
             first_search == sggs_match_found /\ matched_line # NoLine
             search_results == IF first_search /\ first # <<>> THEN first ELSE fallback
         IN  [top_result_found |-> search_results # <<>>,
              sent |-> TRUE,
              response |-> [type |-> "search_result",
                            transcribed_text |-> text,
                            results |-> search_results,
                            sggs_match_found |-> sggs_match_found,
                            fallback_used |-> ~(first_search /\ first # <<>>),
                            best_sggs_match |-> matched_line,
                            best_sggs_score |-> score]]

\* one message handled without the test of manager.top_result_found
websocket_endpoint_unlatched(found, loaded, lines, text, threshold, first, fallback) ==
    LET fuzzy_matches == fuzzy_search_sggs(loaded, lines, text, threshold).result
        matched == fuzzy_matches # <<>>
        matched_line == IF matched THEN fuzzy_matches[1][1] ELSE NoLine
        score == IF matched THEN fuzzy_matches[1][2] ELSE None
        sggs_match_found == matched /\ score >= Pts(threshold)
        first_search == sggs_match_found /\ matched_line # NoLine
        search_results == IF first_search /\ first # <<>> THEN first ELSE fallback
    IN  [top_result_found |-> search_results # <<>>,
         sent |-> TRUE,
         response |-> [type |-> "search_result",
                       transcribed_text |-> text,
                       results |-> search_results,
                       sggs_match_found |-> sggs_match_found,
                       fallback_used |-> ~(first_search /\ first # <<>>),
                       best_sggs_match |-> matched_line,
                       best_sggs_score |-> score]]

\* the body of the receive loop of websocket_endpoint for one message; first
\* and fallback are what search_banidb_api answers to the verse search and
\* to the first-letter search
websocket_endpoint(found, loaded, lines, text, threshold, first, fallback) ==
    IF found THEN [top_result_found |-> found, sent |-> FALSE, response |-> NoResponse]
    ELSE LET fuzzy_matches == fuzzy_search_sggs(loaded, lines, text, threshold).result
             matched == fuzzy_matches # <<>>
             matched_line == IF matched THEN fuzzy_matches[1][1] ELSE NoLine
             score == IF matched THEN fuzzy_matches[1][2] ELSE None
             sggs_match_found == matched /\ score >= Pts(threshold)
             first_search == sggs_match_found /\ matched_line # NoLine
             search_results == IF first_search /\ first # <<>> THEN first ELSE fallback
         IN  [top_result_found |-> search_results # <<>>,
              sent |-> TRUE,
              response |-> [type |-> "search_result",
                            transcribed_text |-> text,
                            results |-> search_results,
                            sggs_match_found |-> sggs_match_found,
                            fallback_used |-> ~(first_search /\ first # <<>>),
                            best_sggs_match |-> matched_line,
                            best_sggs_score |-> score]]

\* the connections that may be opened
Connections == {"ws1", "ws2"}

\* ConnectionManager.__init__
NewManager == [active_connections |-> <<>>, top_result_found |-> <<>>]

\* ConnectionManager.connect
connect(m, ws) ==
    [active_connections |-> Append(m.active_connections, ws),
     top_result_found |-> [c \in DOMAIN m.top_result_found \cup {ws} |->
                              IF c = ws THEN FALSE ELSE m.top_result_found[c]]]

\* ConnectionManager.disconnect; list.remove raises ValueError for a
\* connection that is not in the list
disconnect(m, ws) ==
    IF \A i \in 1..Len(m.active_connections) : m.active_connections[i] # ws
    THEN [m |-> m, raised |-> TRUE]
    ELSE [m |-> [active_connections |->
                     SelectSeq(m.active_connections, LAMBDA c : c # ws),
                 top_result_found |->
                     [c \in DOMAIN m.top_result_found \ {ws} |-> m.top_result_found[c]]],
          raised |-> FALSE]

\* the defaults of fuzzy_match_local_sggs
MATCHER_THRESHOLD == 50
MATCHER_TOP_N == 3

\* the scores fuzz.partial_ratio may give a line
MatcherScoreValues == {49, 50, 51}

\* process.extract(..., limit): the indexes of the limit best-scoring
\* choices, best first, equal scores in the order of the choices
RECURSIVE extract(_, _, _)
extract(scores, S, limit) ==
    IF S = {} \/ limit = 0 THEN <<>>
    ELSE LET b == CHOOSE i \in S : \A j \in S :
                      \/ scores[i] > scores[j]
                      \/ scores[i] = scores[j] /\ i <= j
         IN  <<b>> \o extract(scores, S \ {b}, limit - 1)

\* the None fuzzy_match_local_sggs returns when no entry matches
NoEntry == [none |-> TRUE]

\* the for loop of fuzzy_match_local_sggs from result k on
RECURSIVE first_match(_, _, _, _)
first_match(scores, results, k, threshold) ==
    IF k > Len(results) THEN NoEntry
    ELSE IF scores[results[k]] >= threshold THEN [index |-> results[k]]
    ELSE first_match(scores, results, k + 1, threshold)

\* fuzzy_match_local_sggs(query, sggs_data, threshold, top_n): the entry
\* returned, by its index, or None
fuzzy_match_local_sggs(scores, threshold, top_n) ==
    first_match(scores, extract(scores, DOMAIN scores, top_n), 1, threshold)

(***************************************************************************)
(* The index builders: backend/build_sggs_index.py (build_inverted_index)  *)
(* and Tools/SGGSUtilities/create_inverted_index.py                        *)
(* (create_inverted_index).  A token is the sequence of its characters, an *)
(* index maps each token to its posting set.                               *)
(***************************************************************************)
\* the danda and a vowel sign: neither is a word character for re's \w
Danda == "|"
VowelSign == "i"

\* the lines the input file may hold: a blank line, "a", "ai", "a |", "b a|"
\* and "|"
FileLineChoices ==
    { <<>>, <<"a">>, <<"a", VowelSign>>, <<"a", Blank, Danda>>,
      <<"b", Blank, "a", Danda>>, <<Danda>> }

\* the contents the input file may have
InputFiles == SeqsUpTo(FileLineChoices, MaxFileLines)

\* build_sggs_index.clean_line: the danda and every character that is
\* neither a word character nor a blank are removed, then the ends stripped
clean_line(text) ==
    strip(SelectSeq(text, LAMBDA c : c \notin {Danda, VowelSign}))

\* enumerate(file, start): each line with its number
enumerate(file, start) == [i \in 1..Len(file) |-> <<start + i - 1, file[i]>>]

\* the posting sets with each token's set replaced by the line number
add_postings_overwrite(index, tokens, line_num) ==
    [t \in DOMAIN index \cup tokens |->
        IF t \in tokens THEN {line_num} ELSE index[t]]

\* inverted_index[token].add(line_num) for each token of a line, the index
\* being a defaultdict(set)
add_postings(index, tokens, line_num) ==
    [t \in DOMAIN index \cup tokens |->
        (IF t \in DOMAIN index THEN index[t] ELSE {})
            \cup (IF t \in tokens THEN {line_num} ELSE {})]

\* the loop of build_inverted_index over the numbered lines
RECURSIVE build_lines(_, _, _, _)
build_lines(entries, k, index, map) ==
    IF k > Len(entries) THEN [inverted_index |-> index, line_map |-> map]
    ELSE LET line_num == entries[k][1]
             line == entries[k][2]
             tokens == word_set(clean_line(line))
         IN  build_lines(entries, k + 1,
                         add_postings(index, tokens, line_num),
                         [n \in DOMAIN map \cup {line_num} |->
                             IF n = line_num THEN strip(line) ELSE map[n]])

\* build_sggs_index.build_inverted_index: the index and the line map
build_inverted_index(file) == build_lines(enumerate(file, 0), 1, <<>>, <<>>)

\* the tokens create_inverted_index ignores (of the characters here)
ignore_chars == {<<Danda>>}

\* the loop of create_inverted_index over the numbered lines
RECURSIVE create_lines(_, _, _)
create_lines(entries, k, index) ==
    IF k > Len(entries) THEN index
    ELSE LET line_num == entries[k][1]
             line == strip(entries[k][2])
             tokens == word_set(line) \ ignore_chars
         IN  IF line = <<>> THEN create_lines(entries, k + 1, index)
             ELSE create_lines(entries, k + 1, add_postings(index, tokens, line_num))

\* sorted(list(line_numbers))
RECURSIVE sorted(_)
sorted(S) ==
    IF S = {} THEN <<>>
    ELSE LET least == CHOOSE n \in S : \A m \in S : n <= m
         IN  <<least>> \o sorted(S \ {least})

\* create_inverted_index.create_inverted_index: each token with the sorted
\* list of its line numbers
create_inverted_index(file) ==
    LET index == create_lines(enumerate(file, 1), 1, <<>>)
    IN  [t \in DOMAIN index |-> sorted(index[t])]

VARIABLES
    current_shabad_id,  \* the anchor: a section id or None
    confirmed,          \* the tracker is Confirmed
    failure_counter,    \* consecutive invalid evaluations
    word_buffer,        \* the words received since the last reset
    op,                 \* the last call made on the tracker
    ret,                \* what that call returned
    calls,              \* the searches that call made, in order
    drift_run,          \* the latest successive chunks that met the drift pattern
    buffered,           \* the words buffered once the last chunk's were appended
    invalid_run,        \* the latest successive evaluated chunks judged invalid
    SGGS_LINES,         \* the lines loaded from SGGS.txt
    SGGS_LOADED,        \* SGGS.txt was found
    last_query,         \* the query fuzzy_search_sggs is called with
    last_threshold,     \* the threshold it is called with
    last_result,        \* what the call returned
    last_scored,        \* how many lines the call scored
    sggs_lines,         \* the comparison tool's corpus
    tool_query,         \* the query the tool is asked
    fuzz_scores,        \* rapidfuzz's scores of each normalized line for that query
    last_weights,       \* the weights search_with_weights is called with
    last_top_k,         \* the top_k it is called with
    last_scoring,       \* the candidates the call scored
    last_results,       \* what the call returned
    corpus_size,        \* the number of lines the match engine searches
    span_score,         \* the weighted score of each window of lines for the query
    engine_threshold,   \* the threshold search is called with
    engine_result,      \* what search returned
    inverted_index,     \* the token index: the posting set of each token
    query_words,        \* the words of the query the retriever is given
    candidate_lines,    \* what get_candidate_lines_from_index returned
    active_connections, \* manager.active_connections
    top_result_found,   \* manager.top_result_found: the flag of each connection
    websocket,          \* the connection whose handler took the last step
    sent,               \* that step sent a search_result message
    response,           \* the last search_result message sent
    matcher_scores,     \* fuzz.partial_ratio of the query against each entry's line
    matcher_result,     \* what fuzzy_match_local_sggs returned: an entry or None
    input_file,         \* the lines of the file the index builders read
    built_index,        \* the index build_inverted_index returned
    built_line_map,     \* the line map it returned
    created_index       \* the index create_inverted_index returned

tracker_vars == <<current_shabad_id, confirmed, failure_counter, word_buffer,
                  op, ret, calls, drift_run, buffered, invalid_run>>
search_vars == <<SGGS_LINES, SGGS_LOADED, last_query, last_threshold, last_result, last_scored>>
tool_vars == <<sggs_lines, tool_query, fuzz_scores, last_weights, last_top_k,
               last_scoring, last_results>>
engine_vars == <<corpus_size, span_score, engine_threshold, engine_result>>
index_vars == <<inverted_index, query_words, candidate_lines>>
backend_vars == <<active_connections, top_result_found, websocket, sent, response,
                  matcher_scores, matcher_result>>
builder_vars == <<input_file, built_index, built_line_map, created_index>>
vars == <<tracker_vars, search_vars, tool_vars, engine_vars, index_vars, backend_vars,
         builder_vars>>

\* the tracker object as one value
Tracker ==
    [current_shabad_id |-> current_shabad_id, confirmed |-> confirmed,
     failure_counter |-> failure_counter, word_buffer |-> word_buffer]

\* the state __init__ builds
NewTracker ==
    [current_shabad_id |-> None, confirmed |-> FALSE,
     failure_counter |-> 0, word_buffer |-> <<>>]

\* a search call as the collaborator sees it
GlobalCall(query, result) == [fn |-> "global_search", query |-> query, result |-> result]
LocalCall(id, query, result) ==
    [fn |-> "local_search", shabad_id |-> id, query |-> query, result |-> result]

\* reset with the word buffer left as it is
reset_keeps_buffer(t) ==
    [t EXCEPT !.current_shabad_id = None, !.confirmed = FALSE,
              !.failure_counter = 0]

\* reset with the anchor left as it is
reset_keeps_anchor(t) ==
    [t EXCEPT !.confirmed = FALSE, !.failure_counter = 0, !.word_buffer = <<>>]

\* ShabadTracker.reset
reset(t) ==
    [t EXCEPT !.current_shabad_id = None, !.confirmed = FALSE,
              !.failure_counter = 0, !.word_buffer = <<>>]

\* initial_confirm comparing the second result with the stored anchor
\* instead of the candidate
initial_confirm_stale(t, chunk, result, second_result) ==
    IF result = NoResult
    THEN [t |-> t, ret |-> [status |-> "no_match"],
          calls |-> <<GlobalCall(chunk, result)>>]
    ELSE IF second_result # NoResult /\ second_result.shabad_id = t.current_shabad_id
    THEN [t |-> [t EXCEPT !.current_shabad_id = result.shabad_id,
                          !.confirmed = TRUE, !.failure_counter = 0],
          ret |-> [status |-> "confirmed", shabad_id |-> result.shabad_id,
                   line |-> result.line, score |-> result.score],
          calls |-> <<GlobalCall(chunk, result), GlobalCall(chunk, second_result)>>]
    ELSE [t |-> t, ret |-> [status |-> "pending_confirmation"],
          calls |-> <<GlobalCall(chunk, result), GlobalCall(chunk, second_result)>>]

\* initial_confirm confirming on the first result, whatever the second
initial_confirm_first_only(t, chunk, result, second_result) ==
    IF result = NoResult
    THEN [t |-> t, ret |-> [status |-> "no_match"],
          calls |-> <<GlobalCall(chunk, result)>>]
    ELSE [t |-> [t EXCEPT !.current_shabad_id = result.shabad_id,
                          !.confirmed = TRUE, !.failure_counter = 0],
          ret |-> [status |-> "confirmed", shabad_id |-> result.shabad_id,
                   line |-> result.line, score |-> result.score],
          calls |-> <<GlobalCall(chunk, result), GlobalCall(chunk, second_result)>>]

\* ShabadTracker.initial_confirm; result and second_result are what the
\* first and the second global_search answer
initial_confirm(t, chunk, result, second_result) ==
    IF result = NoResult
    THEN [t |-> t, ret |-> [status |-> "no_match"],
          calls |-> <<GlobalCall(chunk, result)>>]
    ELSE IF second_result # NoResult /\ second_result.shabad_id = result.shabad_id
    THEN [t |-> [t EXCEPT !.current_shabad_id = result.shabad_id,
                          !.confirmed = TRUE, !.failure_counter = 0],
          ret |-> [status |-> "confirmed", shabad_id |-> result.shabad_id,
                   line |-> result.line, score |-> result.score],
          calls |-> <<GlobalCall(chunk, result), GlobalCall(chunk, second_result)>>]
    ELSE [t |-> t, ret |-> [status |-> "pending_confirmation"],
          calls |-> <<GlobalCall(chunk, result), GlobalCall(chunk, second_result)>>]

\* the window validate_progression evaluates
Window(t) == join(LastN(t.word_buffer, INTERIM_WORD_CHECK))

\* validate_progression with > where the code has >= on the local score
validate_progression_strict(t, local_result, global_result) ==
    IF Len(t.word_buffer) < INTERIM_WORD_CHECK THEN TRUE
    ELSE LET local_score == IF local_result # NoResult THEN local_result.score ELSE 0
             global_id == IF global_result # NoResult THEN global_result.shabad_id ELSE None
             global_score == IF global_result # NoResult THEN global_result.score ELSE 0
         IN  IF /\ local_result # NoResult /\ global_result # NoResult
                /\ global_id = t.current_shabad_id /\ local_score > LOCAL_THRESHOLD
             THEN TRUE
             ELSE IF local_score > LOCAL_THRESHOLD THEN TRUE
             ELSE IF global_score >= GLOBAL_THRESHOLD /\ global_id # t.current_shabad_id
             THEN FALSE
             ELSE FALSE

\* validate_progression returning True in its drift case
validate_progression_drift_valid(t, local_result, global_result) ==
    IF Len(t.word_buffer) < INTERIM_WORD_CHECK THEN TRUE
    ELSE LET local_score == IF local_result # NoResult THEN local_result.score ELSE 0
             global_id == IF global_result # NoResult THEN global_result.shabad_id ELSE None
             global_score == IF global_result # NoResult THEN global_result.score ELSE 0
         IN  IF /\ local_result # NoResult /\ global_result # NoResult
                /\ global_id = t.current_shabad_id /\ local_score >= LOCAL_THRESHOLD
             THEN TRUE
             ELSE IF local_score >= LOCAL_THRESHOLD THEN TRUE
             ELSE IF global_score >= GLOBAL_THRESHOLD /\ global_id # t.current_shabad_id
             THEN TRUE
             ELSE FALSE

\* validate_progression whose agreement case does not look at the local score
validate_progression_global_agrees(t, local_result, global_result) ==
    IF Len(t.word_buffer) < INTERIM_WORD_CHECK THEN TRUE
    ELSE LET local_score == IF local_result # NoResult THEN local_result.score ELSE 0
             global_id == IF global_result # NoResult THEN global_result.shabad_id ELSE None
             global_score == IF global_result # NoResult THEN global_result.score ELSE 0
         IN  IF /\ local_result # NoResult /\ global_result # NoResult
                /\ global_id = t.current_shabad_id
             THEN TRUE
             ELSE IF local_score >= LOCAL_THRESHOLD THEN TRUE
             ELSE IF global_score >= GLOBAL_THRESHOLD /\ global_id # t.current_shabad_id
             THEN FALSE
             ELSE FALSE

\* validate_progression judging a buffer of fewer than INTERIM_WORD_CHECK words invalid
validate_progression_unready_invalid(t, local_result, global_result) ==
    IF Len(t.word_buffer) < INTERIM_WORD_CHECK THEN FALSE
    ELSE LET local_score == IF local_result # NoResult THEN local_result.score ELSE 0
             global_id == IF global_result # NoResult THEN global_result.shabad_id ELSE None
             global_score == IF global_result # NoResult THEN global_result.score ELSE 0
         IN  IF /\ local_result # NoResult /\ global_result # NoResult
                /\ global_id = t.current_shabad_id /\ local_score >= LOCAL_THRESHOLD
             THEN TRUE
             ELSE IF local_score >= LOCAL_THRESHOLD THEN TRUE
             ELSE IF global_score >= GLOBAL_THRESHOLD /\ global_id # t.current_shabad_id
             THEN FALSE
             ELSE FALSE

\* validate_progression without its local-override case: a strong local
\* score is valid only when the global search agrees on the anchor
validate_progression_needs_agreement(t, local_result, global_result) ==
    IF Len(t.word_buffer) < INTERIM_WORD_CHECK THEN TRUE
    ELSE LET local_score == IF local_result # NoResult THEN local_result.score ELSE 0
             global_id == IF global_result # NoResult THEN global_result.shabad_id ELSE None
             global_score == IF global_result # NoResult THEN global_result.score ELSE 0
         IN  IF /\ local_result # NoResult /\ global_result # NoResult
                /\ global_id = t.current_shabad_id /\ local_score >= LOCAL_THRESHOLD
             THEN TRUE
             ELSE IF global_score >= GLOBAL_THRESHOLD /\ global_id # t.current_shabad_id
             THEN FALSE
             ELSE FALSE

\* ShabadTracker.validate_progression: the verdict
validate_progression(t, local_result, global_result) ==
    IF Len(t.word_buffer) < INTERIM_WORD_CHECK THEN TRUE
    ELSE LET local_score == IF local_result # NoResult THEN local_result.score ELSE 0
             global_id == IF global_result # NoResult THEN global_result.shabad_id ELSE None
             global_score == IF global_result # NoResult THEN global_result.score ELSE 0
         IN  IF /\ local_result # NoResult /\ global_result # NoResult
                /\ global_id = t.current_shabad_id /\ local_score >= LOCAL_THRESHOLD
             THEN TRUE
             ELSE IF local_score >= LOCAL_THRESHOLD THEN TRUE
             ELSE IF global_score >= GLOBAL_THRESHOLD /\ global_id # t.current_shabad_id
             THEN FALSE
             ELSE FALSE

\* the searches validate_progression makes
validate_calls(t, local_result, global_result) ==
    IF Len(t.word_buffer) < INTERIM_WORD_CHECK THEN <<>>
    ELSE <<LocalCall(t.current_shabad_id, Window(t), local_result),
           GlobalCall(Window(t), global_result)>>

\* detect_drift that keeps the count when an evaluation is valid
detect_drift_sticky(t, local_result, global_result) ==
    LET valid == validate_progression(t, local_result, global_result)
        counted == [t EXCEPT !.failure_counter = IF ~valid THEN @ + 1 ELSE @]
    IN  IF counted.failure_counter >= MAX_FAILURES
        THEN [t |-> reset(counted), drifted |-> TRUE]
        ELSE [t |-> counted, drifted |-> FALSE]

\* detect_drift with > where the code has >=
detect_drift_late(t, local_result, global_result) ==
    LET valid == validate_progression(t, local_result, global_result)
        counted == [t EXCEPT !.failure_counter = IF ~valid THEN @ + 1 ELSE 0]
    IN  IF counted.failure_counter > MAX_FAILURES
        THEN [t |-> reset(counted), drifted |-> TRUE]
        ELSE [t |-> counted, drifted |-> FALSE]

\* detect_drift emptying the word buffer when it counts a failure
detect_drift_clears_buffer(t, local_result, global_result) ==
    LET valid == validate_progression(t, local_result, global_result)
        counted == IF ~valid
                   THEN [t EXCEPT !.failure_counter = @ + 1, !.word_buffer = <<>>]
                   ELSE [t EXCEPT !.failure_counter = 0]
    IN  IF counted.failure_counter >= MAX_FAILURES
        THEN [t |-> reset(counted), drifted |-> TRUE]
        ELSE [t |-> counted, drifted |-> FALSE]

\* detect_drift reporting the drift without the reset
detect_drift_without_reset(t, local_result, global_result) ==
    LET valid == validate_progression(t, local_result, global_result)
        counted == [t EXCEPT !.failure_counter = IF ~valid THEN @ + 1 ELSE 0]
    IN  IF counted.failure_counter >= MAX_FAILURES
        THEN [t |-> counted, drifted |-> TRUE]
        ELSE [t |-> counted, drifted |-> FALSE]

\* ShabadTracker.detect_drift
detect_drift(t, local_result, global_result) ==
    LET valid == validate_progression(t, local_result, global_result)
        counted == [t EXCEPT !.failure_counter = IF ~valid THEN @ + 1 ELSE 0]
    IN  IF counted.failure_counter >= MAX_FAILURES
        THEN [t |-> reset(counted), drifted |-> TRUE]
        ELSE [t |-> counted, drifted |-> FALSE]

\* process_chunk without the return after initial_confirm: a chunk that
\* confirms falls through to the 'tracking' return
process_chunk_fallthrough(t, chunk, r1, r2) ==
    LET words == split(chunk)
        ext == [t EXCEPT !.word_buffer = @ \o words]
    IN  IF ~ext.confirmed
        THEN LET c == initial_confirm(ext, chunk, r1, r2)
             IN  IF c.t.confirmed
                 THEN [c EXCEPT !.ret = [status |-> "tracking",
                                         shabad_id |-> c.t.current_shabad_id]]
                 ELSE c
        ELSE LET d == detect_drift(ext, r1, r2)
             IN  [t |-> d.t,
                  ret |-> IF d.drifted THEN [status |-> "drift_detected"]
                          ELSE [status |-> "tracking",
                                shabad_id |-> d.t.current_shabad_id],
                  calls |-> validate_calls(ext, r1, r2)]

\* process_chunk moving a Confirmed tracker's anchor to the section the
\* global search of an evaluation matched
process_chunk_follows_global(t, chunk, r1, r2) ==
    LET words == split(chunk)
        ext == [t EXCEPT !.word_buffer = @ \o words]
    IN  IF ~ext.confirmed THEN initial_confirm(ext, chunk, r1, r2)
        ELSE LET d == detect_drift(ext, r1, r2)
                 moved == IF d.t.confirmed /\ validate_calls(ext, r1, r2) # <<>>
                             /\ r2 # NoResult
                          THEN [d.t EXCEPT !.current_shabad_id = r2.shabad_id]
                          ELSE d.t
             IN  [t |-> moved,
                  ret |-> IF d.drifted THEN [status |-> "drift_detected"]
                          ELSE [status |-> "tracking",
                                shabad_id |-> moved.current_shabad_id],
                  calls |-> validate_calls(ext, r1, r2)]

\* ShabadTracker.process_chunk; r1 and r2 are what the first and the second
\* search of the call answer
process_chunk(t, chunk, r1, r2) ==
    LET words == split(chunk)
        ext == [t EXCEPT !.word_buffer = @ \o words]
    IN  IF ~ext.confirmed THEN initial_confirm(ext, chunk, r1, r2)
        ELSE LET d == detect_drift(ext, r1, r2)
             IN  [t |-> d.t,
                  ret |-> IF d.drifted THEN [status |-> "drift_detected"]
                          ELSE [status |-> "tracking",
                                shabad_id |-> d.t.current_shabad_id],
                  calls |-> validate_calls(ext, r1, r2)]

\* the drift pattern of a result pair: local below the threshold (or no
\* local match) and a global match on another section at or above its threshold
DriftPattern(anchor, local_result, global_result) ==
    /\ local_result = NoResult \/ local_result.score < LOCAL_THRESHOLD
    /\ global_result # NoResult
    /\ global_result.shabad_id # anchor
    /\ global_result.score >= GLOBAL_THRESHOLD

\* the call evaluated a window in Confirmed state and met the drift pattern
DriftChunk(t, chunk, r1, r2) ==
    /\ t.confirmed
    /\ Len(t.word_buffer) + Len(split(chunk)) >= INTERIM_WORD_CHECK
    /\ DriftPattern(t.current_shabad_id, r1, r2)

KeepLast(s, n) == IF Len(s) <= n THEN s ELSE SubSeq(s, Len(s) - n + 1, Len(s))

\* a tracker as __init__ leaves it
TrackerInit ==
    /\ current_shabad_id = NewTracker.current_shabad_id
    /\ confirmed = NewTracker.confirmed
    /\ failure_counter = NewTracker.failure_counter
    /\ word_buffer = NewTracker.word_buffer
    /\ op = "__init__"
    /\ ret = [status |-> None]
    /\ calls = <<>>
    /\ drift_run = <<>>
    /\ buffered = 0
    /\ invalid_run = 0

\* the backend's search is not in use
NoSearch ==
    /\ SGGS_LINES = <<>>
    /\ SGGS_LOADED = FALSE
    /\ last_query = <<>>
    /\ last_threshold = 0
    /\ last_result = <<>>
    /\ last_scored = 0

\* the comparison tool is not in use
NoTool ==
    /\ sggs_lines = <<>>
    /\ tool_query = <<>>
    /\ fuzz_scores = <<>>
    /\ last_weights = <<>>
    /\ last_top_k = 0
    /\ last_scoring = <<>>
    /\ last_results = <<>>

\* the match engine is not in use
NoEngine ==
    /\ corpus_size = 0
    /\ span_score = <<>>
    /\ engine_threshold = 0
    /\ engine_result = NoResult

\* the retriever is not in use
NoIndex ==
    /\ inverted_index = <<>>
    /\ query_words = <<>>
    /\ candidate_lines = [stage |-> 0, lines |-> {}]

\* no connection is open and the matcher is not in use
NoBackend ==
    /\ active_connections = NewManager.active_connections
    /\ top_result_found = NewManager.top_result_found
    /\ websocket = None
    /\ sent = FALSE
    /\ response = NoResponse
    /\ matcher_scores = <<>>
    /\ matcher_result = NoEntry

\* the index builders are not in use
NoBuilder ==
    /\ input_file = <<>>
    /\ built_index = <<>>
    /\ built_line_map = <<>>
    /\ created_index = <<>>

\* a tracker session: no corpus is involved
Init ==
    /\ TrackerInit
    /\ NoBuilder
    /\ NoSearch
    /\ NoTool
    /\ NoEngine
    /\ NoIndex
    /\ NoBackend

SetTracker(t) ==
    /\ current_shabad_id' = t.current_shabad_id
    /\ confirmed' = t.confirmed
    /\ failure_counter' = t.failure_counter
    /\ word_buffer' = t.word_buffer

\* what the searches of one process_chunk call may answer, as <<first, second>>;
\* a search the call does not make has no answer (NoResult stands in)
Answers(t, chunk) ==
    IF ~t.confirmed
    THEN {<<NoResult, NoResult>>}
         \cup ((GlobalResults \ {NoResult}) \X GlobalResults)
    ELSE IF Len(t.word_buffer) + Len(split(chunk)) < INTERIM_WORD_CHECK
    THEN {<<NoResult, NoResult>>}
    ELSE LocalResults(t.current_shabad_id) \X GlobalResults

\* one call of process_chunk
ProcessChunk ==
    \E chunk \in Chunks :
        /\ Len(word_buffer) + Len(split(chunk)) <= MaxBuf
        /\ \E a \in Answers(Tracker, chunk) :
             LET out == process_chunk(Tracker, chunk, a[1], a[2])
             IN  /\ SetTracker(out.t)
                 /\ op' = "process_chunk"
                 /\ ret' = out.ret
                 /\ calls' = out.calls
                 /\ drift_run' =
                      IF DriftChunk(Tracker, chunk, a[1], a[2])
                      THEN KeepLast(Append(drift_run,
                                           [anchor |-> current_shabad_id, ret |-> out.ret]),
                                    MAX_FAILURES)
                      ELSE <<>>
                 /\ buffered' = Len(word_buffer) + Len(split(chunk))
                 /\ invalid_run' =
                      IF ~confirmed THEN 0
                      ELSE IF Len(word_buffer) + Len(split(chunk)) < INTERIM_WORD_CHECK
                      THEN invalid_run
                      ELSE IF validate_progression(
                                  [Tracker EXCEPT !.word_buffer = @ \o split(chunk)],
                                  a[1], a[2])
                      THEN 0
                      ELSE invalid_run + 1
                 /\ UNCHANGED <<search_vars, tool_vars, engine_vars, index_vars, backend_vars, builder_vars>>

\* one explicit call of reset
Reset ==
    /\ SetTracker(reset(Tracker))
    /\ op' = "reset"
    /\ ret' = [status |-> None]
    /\ calls' = <<>>
    /\ drift_run' = <<>>
    /\ buffered' = 0
    /\ invalid_run' = 0
    /\ UNCHANGED <<search_vars, tool_vars, engine_vars, index_vars, backend_vars, builder_vars>>

Next == ProcessChunk \/ Reset

Spec == Init /\ [][Next]_vars

(***************************************************************************)
(* The backend's search, a pure function of the corpus and its arguments:  *)
(* SGGS.txt is loaded at startup, absent or with any content, and          *)
(* fuzzy_search_sggs is called with a query and a threshold.               *)
(***************************************************************************)
SearchInit ==
    /\ TrackerInit
    /\ NoBuilder
    /\ NoTool
    /\ NoEngine
    /\ NoIndex
    /\ NoBackend
    /\ \/ SGGS_LOADED = FALSE /\ SGGS_LINES = <<>>
       \/ /\ SGGS_LOADED = TRUE
          /\ SGGS_LINES \in {load_sggs(file) : file \in Files}
    /\ last_query \in Queries
    /\ last_threshold \in Thresholds
    /\ last_result = <<>>
    /\ last_scored = 0

\* one call of fuzzy_search_sggs
FuzzySearch ==
    \E out \in {fuzzy_search_sggs(SGGS_LOADED, SGGS_LINES, last_query, last_threshold)} :
        /\ last_result' = out.result
        /\ last_scored' = out.scored
        /\ op' = "fuzzy_search_sggs"
        /\ UNCHANGED <<SGGS_LINES, SGGS_LOADED, last_query, last_threshold,
                       current_shabad_id, confirmed, failure_counter, word_buffer,
                       ret, calls, drift_run,
                       buffered, invalid_run>>
        /\ UNCHANGED <<tool_vars, engine_vars, index_vars, backend_vars, builder_vars>>

SearchNext == FuzzySearch

SearchSpec == SearchInit /\ [][SearchNext]_vars

(***************************************************************************)
(* The comparison tool: a FuzzySearchComparator over any corpus, asked a   *)
(* query with some weights and top_k, any number of times.                 *)
(***************************************************************************)
ToolInit ==
    /\ TrackerInit
    /\ NoBuilder
    /\ NoSearch
    /\ NoEngine
    /\ NoIndex
    /\ NoBackend
    /\ sggs_lines \in SeqsUpTo(ToolLines, MaxToolLines)
    /\ tool_query \in ToolQueries
    /\ fuzz_scores \in [{n \in {normalize_text(l) : l \in ToolLines} : Len(n) >= 3}
                          -> ScoreProfiles]
    /\ last_weights \in WeightChoices
    /\ last_top_k \in TopKs
    /\ last_scoring = <<>>
    /\ last_results = <<>>

\* one call of search_with_weights
SearchWithWeights ==
    \E scoring \in Sampled(prefilter(sggs_lines, normalize_text(tool_query), 0)) :
        /\ last_scoring' = scoring
        /\ last_results' = search_with_weights(scoring, fuzz_scores, last_weights, last_top_k)
        /\ op' = "search_with_weights"
        /\ UNCHANGED <<sggs_lines, tool_query, fuzz_scores, last_weights, last_top_k,
                       search_vars, current_shabad_id, confirmed, failure_counter,
                       word_buffer, ret, calls, drift_run,
                       buffered, invalid_run, engine_vars, index_vars,
                       backend_vars, builder_vars>>

ToolNext == SearchWithWeights

ToolSpec == ToolInit /\ [][ToolNext]_vars

(***************************************************************************)
(* The Match Engine: search over a corpus of any size up to MaxSpanLines,  *)
(* with any scores of its lines and spans.                                 *)
(***************************************************************************)
EngineInit ==
    /\ TrackerInit
    /\ NoBuilder
    /\ NoSearch
    /\ NoTool
    /\ NoIndex
    /\ NoBackend
    /\ corpus_size \in 1..MaxSpanLines
    /\ span_score \in SpanScores(corpus_size)
    /\ engine_threshold \in Thresholds
    /\ engine_result = NoResult

\* one call of search
EngineSearch ==
    /\ engine_result' = search(span_score, corpus_size, engine_threshold)
    /\ op' = "search"
    /\ UNCHANGED <<corpus_size, span_score, engine_threshold, search_vars, tool_vars,
                   current_shabad_id, confirmed, failure_counter, word_buffer,
                   ret, calls, drift_run,
                       buffered, invalid_run, index_vars, backend_vars, builder_vars>>

EngineNext == EngineSearch

EngineSpec == EngineInit /\ [][EngineNext]_vars

(***************************************************************************)
(* The Candidate Retriever: any index over the corpus, asked the candidate *)
(* lines of a query.                                                       *)
(***************************************************************************)
IndexInit ==
    /\ TrackerInit
    /\ NoBuilder
    /\ NoSearch
    /\ NoTool
    /\ NoEngine
    /\ NoBackend
    /\ inverted_index \in Indexes
    /\ query_words \in IndexQueries
    /\ candidate_lines = [stage |-> 0, lines |-> {}]

\* one call of get_candidate_lines_from_index
GetCandidateLines ==
    /\ candidate_lines' = get_candidate_lines_from_index(inverted_index, query_words)
    /\ op' = "get_candidate_lines_from_index"
    /\ UNCHANGED <<inverted_index, query_words, search_vars, tool_vars, engine_vars,
                   current_shabad_id, confirmed, failure_counter, word_buffer,
                   ret, calls, drift_run,
                       buffered, invalid_run, backend_vars, builder_vars>>

IndexNext == GetCandidateLines

IndexSpec == IndexInit /\ [][IndexNext]_vars

(***************************************************************************)
(* The backend serving one connection over any loaded corpus, the client   *)
(* sending its text again and again; and the matcher script asked for the  *)
(* entry that matches a transcription.                                     *)
(***************************************************************************)
\* the contents of SGGS.txt the connection is served from: lines no longer
\* than the texts the client sends
BackendFiles == SeqsUpTo(SeqsUpTo(Chars \cup {Blank}, MaxQueryLen), MaxLines)

BackendInit ==
    /\ TrackerInit
    /\ NoBuilder
    /\ NoTool
    /\ NoEngine
    /\ NoIndex
    /\ websocket = None
    /\ sent = FALSE
    /\ response = NoResponse
    /\ matcher_result = NoEntry
    /\ \/ /\ matcher_scores = <<>>
          /\ \E ws \in Connections :
                /\ active_connections = connect(NewManager, ws).active_connections
                /\ top_result_found = connect(NewManager, ws).top_result_found
          /\ \/ SGGS_LOADED = FALSE /\ SGGS_LINES = <<>>
             \/ /\ SGGS_LOADED = TRUE
                /\ SGGS_LINES \in {load_sggs(file) : file \in BackendFiles}
          /\ last_query \in Queries
          /\ last_threshold \in Thresholds
          /\ last_result = <<>>
          /\ last_scored = 0
       \/ /\ NoSearch
          /\ active_connections = NewManager.active_connections
          /\ top_result_found = NewManager.top_result_found
          /\ matcher_scores \in SeqsUpTo(MatcherScoreValues, MaxEntries) \ {<<>>}

\* the manager as one value
Manager == [active_connections |-> active_connections,
            top_result_found |-> top_result_found]

\* the connection is open: its handler waits in receive_text
Open(ws) == \E i \in 1..Len(active_connections) : active_connections[i] = ws

\* a client opens the connection: the handler starts with manager.connect
Connect(ws) ==
    /\ ~Open(ws)
    /\ matcher_scores = <<>>
    /\ active_connections' = connect(Manager, ws).active_connections
    /\ top_result_found' = connect(Manager, ws).top_result_found
    /\ websocket' = ws
    /\ sent' = FALSE
    /\ op' = "connect"
    /\ UNCHANGED <<response, search_vars, matcher_scores, matcher_result, tool_vars,
                   engine_vars, index_vars, current_shabad_id, confirmed,
                   failure_counter, word_buffer, ret, calls, drift_run,
                   buffered, invalid_run, builder_vars>>

\* one message received on the connection
WebsocketMessage(ws) ==
    \E first \in BaniDBResults, fallback \in BaniDBResults :
        LET found == IF ws \in DOMAIN top_result_found THEN top_result_found[ws] ELSE FALSE
            out == websocket_endpoint(found, SGGS_LOADED, SGGS_LINES,
                                      last_query, last_threshold, first, fallback)
        IN  /\ Open(ws)
            /\ matcher_scores = <<>>
            /\ top_result_found' =
                  IF out.top_result_found
                  THEN [c \in DOMAIN top_result_found \cup {ws} |->
                           IF c = ws THEN TRUE ELSE top_result_found[c]]
                  ELSE top_result_found
            /\ websocket' = ws
            /\ sent' = out.sent
            /\ response' = IF out.sent THEN out.response ELSE response
            /\ op' = "websocket_endpoint"
            /\ UNCHANGED <<active_connections, search_vars, matcher_scores, matcher_result,
                           tool_vars, engine_vars, index_vars, current_shabad_id, confirmed,
                           failure_counter, word_buffer, ret, calls, drift_run,
                           buffered, invalid_run, builder_vars>>

\* the client closes the connection: WebSocketDisconnect is raised in
\* receive_text and the except clause runs
Disconnect(ws) ==
    /\ Open(ws)
    /\ active_connections' = disconnect(Manager, ws).m.active_connections
    /\ top_result_found' = disconnect(Manager, ws).m.top_result_found
    /\ websocket' = ws
    /\ sent' = FALSE
    /\ op' = "disconnect"
    /\ UNCHANGED <<response, search_vars, matcher_scores, matcher_result, tool_vars,
                   engine_vars, index_vars, current_shabad_id, confirmed,
                   failure_counter, word_buffer, ret, calls, drift_run,
                   buffered, invalid_run, builder_vars>>

\* one call of fuzzy_match_local_sggs with its default threshold and top_n
FuzzyMatchLocal ==
    /\ matcher_scores # <<>>
    /\ matcher_result' = fuzzy_match_local_sggs(matcher_scores, MATCHER_THRESHOLD,
                                                MATCHER_TOP_N)
    /\ op' = "fuzzy_match_local_sggs"
    /\ UNCHANGED <<matcher_scores, active_connections, top_result_found, websocket, sent,
                   response, search_vars, tool_vars,
                   engine_vars, index_vars, current_shabad_id, confirmed,
                   failure_counter, word_buffer, ret, calls, drift_run,
                   buffered, invalid_run, builder_vars>>

BackendNext == (\E ws \in Connections : WebsocketMessage(ws)) \/ FuzzyMatchLocal

BackendSpec == BackendInit /\ [][BackendNext]_vars

(***************************************************************************)
(* The backend with clients that come and go: connections are opened,      *)
(* send their text and are closed, in any interleaving of whole handler    *)
(* steps.                                                                  *)
(***************************************************************************)
\* "a " is in the corpus, and the client's text is "a" or "b"
ConnectionInit ==
    /\ TrackerInit
    /\ NoBuilder
    /\ NoTool
    /\ NoEngine
    /\ NoIndex
    /\ NoBackend
    /\ \/ SGGS_LOADED = FALSE /\ SGGS_LINES = <<>>
       \/ SGGS_LOADED = TRUE /\ SGGS_LINES = load_sggs(<<<<"a", Blank>>>>)
    /\ last_query \in {<<"a">>, <<"b">>}
    /\ last_threshold \in Thresholds
    /\ last_result = <<>>
    /\ last_scored = 0

ConnectionNext ==
    \E ws \in Connections : Connect(ws) \/ WebsocketMessage(ws) \/ Disconnect(ws)

ConnectionSpec == ConnectionInit /\ [][ConnectionNext]_vars

(***************************************************************************)
(* The index builders run over any input file, each any number of times.   *)
(***************************************************************************)
BuilderInit ==
    /\ TrackerInit
    /\ NoSearch
    /\ NoTool
    /\ NoEngine
    /\ NoIndex
    /\ NoBackend
    /\ input_file \in InputFiles
    /\ built_index = <<>>
    /\ built_line_map = <<>>
    /\ created_index = <<>>

\* one run of build_inverted_index
BuildInvertedIndex ==
    LET out == build_inverted_index(input_file)
    IN  /\ built_index' = out.inverted_index
        /\ built_line_map' = out.line_map
        /\ op' = "build_inverted_index"
        /\ UNCHANGED <<input_file, created_index, search_vars, tool_vars, engine_vars,
                       index_vars, backend_vars, current_shabad_id, confirmed,
                       failure_counter, word_buffer, ret, calls, drift_run,
                       buffered, invalid_run>>

\* one run of create_inverted_index
CreateInvertedIndex ==
    /\ created_index' = create_inverted_index(input_file)
    /\ op' = "create_inverted_index"
    /\ UNCHANGED <<input_file, built_index, built_line_map, search_vars, tool_vars,
                   engine_vars, index_vars, backend_vars, current_shabad_id, confirmed,
                   failure_counter, word_buffer, ret, calls, drift_run,
                   buffered, invalid_run>>

BuilderNext == BuildInvertedIndex \/ CreateInvertedIndex

BuilderSpec == BuilderInit /\ [][BuilderNext]_vars

TypeOK ==
    /\ current_shabad_id \in ShabadIds \cup {None}
    /\ confirmed \in BOOLEAN
    /\ failure_counter \in Nat
    /\ Len(word_buffer) <= MaxBuf

(***************************************************************************)
(* The statuses process_chunk may return.                                  *)
(***************************************************************************)
Statuses == {"no_match", "pending_confirmation", "confirmed", "tracking", "drift_detected"}

\* the last call was a process_chunk that started Unconfirmed and made two
\* global searches
TwoGlobalSearches ==
    /\ op = "process_chunk"
    /\ Len(calls) = 2
    /\ calls[1].fn = "global_search"
    /\ calls[2].fn = "global_search"

\* both searches matched and agree on the section
BothAgree ==
    /\ calls[1].result # NoResult
    /\ calls[2].result # NoResult
    /\ calls[1].result.shabad_id = calls[2].result.shabad_id

(***************************************************************************)
(* C1: a process_chunk call that starts Unconfirmed and whose two          *)
(* successive global searches both match the same section S returns        *)
(* 'confirmed' with S and leaves the tracker Confirmed, anchor S, failure  *)
(* counter 0.                                                              *)
(***************************************************************************)
C1_ConfirmOnAgreement ==
    [][(~confirmed /\ TwoGlobalSearches' /\ BothAgree')
        => /\ ret'.status = "confirmed"
           /\ ret'.shabad_id = calls'[1].result.shabad_id
           /\ confirmed'
           /\ current_shabad_id' = calls'[1].result.shabad_id
           /\ failure_counter' = 0]_vars

C1_Witness ==
    /\ TwoGlobalSearches /\ BothAgree
    /\ ret.status = "confirmed"
    /\ confirmed /\ current_shabad_id = calls[1].result.shabad_id

(***************************************************************************)
(* C2: a chunk processed Unconfirmed confirms only when two global         *)
(* searches made for that chunk both matched and agree on the section; a   *)
(* first search without match gives 'no_match', a second search without    *)
(* match or on another section gives 'pending_confirmation', and in both   *)
(* cases the tracker stays Unconfirmed without anchor.                     *)
(***************************************************************************)
C2_NoConfirmWithoutAgreement ==
    [][(~confirmed /\ op' = "process_chunk")
        => /\ Len(calls') >= 1
           /\ \A i \in 1..Len(calls') :
                /\ calls'[i].fn = "global_search"
                /\ calls'[i].query = calls'[1].query
           /\ word_buffer' = word_buffer \o split(calls'[1].query)
           /\ confirmed' => (TwoGlobalSearches' /\ BothAgree')
           /\ calls'[1].result = NoResult
                => /\ ret'.status = "no_match"
                   /\ Len(calls') = 1
                   /\ ~confirmed' /\ current_shabad_id' = None
           /\ (/\ calls'[1].result # NoResult
               /\ Len(calls') = 2
               /\ \/ calls'[2].result = NoResult
                  \/ calls'[2].result.shabad_id # calls'[1].result.shabad_id)
                => /\ ret'.status = "pending_confirmation"
                   /\ ~confirmed' /\ current_shabad_id' = None]_vars

C2_Witness ==
    /\ TwoGlobalSearches
    /\ calls[1].result # NoResult
    /\ calls[2].result # NoResult
    /\ calls[2].result.shabad_id # calls[1].result.shabad_id
    /\ ret.status = "pending_confirmation"
    /\ ~confirmed /\ current_shabad_id = None

(***************************************************************************)
(* C3: MAX_FAILURES successive chunks of a Confirmed tracker with anchor   *)
(* A, each evaluating a window with local score < 60 and a global match on *)
(* another section with score >= 65, return 'tracking' with A for all but  *)
(* the last and 'drift_detected' for the last, after which the anchor is   *)
(* None and the tracker Unconfirmed.                                       *)
(***************************************************************************)
C3_DriftAfterMaxFailures ==
    Len(drift_run) = MAX_FAILURES
        => /\ \A i \in 1..(MAX_FAILURES - 1) :
                drift_run[i].ret = [status |-> "tracking",
                                    shabad_id |-> drift_run[1].anchor]
           /\ drift_run[1].anchor # None
           /\ drift_run[MAX_FAILURES].ret = [status |-> "drift_detected"]
           /\ ret = [status |-> "drift_detected"]
           /\ current_shabad_id = None
           /\ ~confirmed

C3_Witness ==
    /\ Len(drift_run) = MAX_FAILURES
    /\ ret.status = "drift_detected"
    /\ current_shabad_id = None

(***************************************************************************)
(* C4: no tracker state is terminal: in every reachable state, the state   *)
(* after 'drift_detected' included, a further process_chunk call is        *)
(* accepted and returns a status, and either the tracker is Confirmed or   *)
(* some chunk confirms it.                                                 *)
(***************************************************************************)
C4_NoTerminalState ==
    /\ ENABLED (ProcessChunk /\ ret'.status \in Statuses)
    /\ confirmed \/ ENABLED (ProcessChunk /\ confirmed')

C4_Witness ==
    /\ op = "process_chunk"
    /\ ret.status = "drift_detected"
    /\ ~confirmed
    /\ ENABLED (ProcessChunk /\ confirmed')

(***************************************************************************)
(* C5: after a reset, explicit or forced by drift, the tracker is in the   *)
(* state of a freshly constructed one (anchor None, not confirmed, failure *)
(* counter 0, empty buffer), and a further reset changes nothing.          *)
(***************************************************************************)
ResetHappened ==
    \/ op = "reset"
    \/ op = "process_chunk" /\ ret.status = "drift_detected"

C5_ResetIsFresh ==
    ResetHappened
        => /\ Tracker = NewTracker
           /\ reset(Tracker) = Tracker
           /\ reset(reset(Tracker)) = reset(Tracker)

C5_Witness ==
    /\ op = "process_chunk"
    /\ ret.status = "drift_detected"
    /\ Len(calls) = 2
    /\ Len(calls[1].query) > 0
    /\ Tracker = NewTracker

(***************************************************************************)
(* C6: every process_chunk call returns one status of the five;            *)
(* no_match, pending_confirmation and confirmed only when the call started *)
(* Unconfirmed, tracking and drift_detected only when it started           *)
(* Confirmed.                                                              *)
(***************************************************************************)
C6_StatusByStartState ==
    [][op' = "process_chunk"
        => /\ ret'.status \in Statuses
           /\ ret'.status \in {"no_match", "pending_confirmation", "confirmed"}
                => ~confirmed
           /\ ret'.status \in {"tracking", "drift_detected"} => confirmed]_vars

C6_Witness ==
    /\ op = "process_chunk"
    /\ ret.status = "tracking"
    /\ Len(calls) = 2
    /\ confirmed

(***************************************************************************)
(* C7: the word buffer is bounded: some fixed bound below the explored     *)
(* horizon is never exceeded by its length.                                *)
(***************************************************************************)
C7_BufferBounded == Len(word_buffer) < MaxBuf

(***************************************************************************)
(* Searches: what the claims speak of.                                     *)
(***************************************************************************)
\* the last call was a fuzzy_search_sggs that scored the corpus
Searched ==
    /\ op = "fuzzy_search_sggs"
    /\ SGGS_LOADED
    /\ strip(last_query) # <<>>
    /\ Len(SGGS_LINES) > 0

\* the best score any corpus line has for the query
BestScore ==
    CHOOSE b \in {ratio(last_query, SGGS_LINES[i]) : i \in 1..Len(SGGS_LINES)} :
        \A i \in 1..Len(SGGS_LINES) : ratio(last_query, SGGS_LINES[i]) <= b

\* the first line, in corpus order, that has the best score
EarliestBest ==
    CHOOSE i \in 1..Len(SGGS_LINES) :
        /\ ratio(last_query, SGGS_LINES[i]) = BestScore
        /\ \A j \in 1..(i - 1) : ratio(last_query, SGGS_LINES[j]) < BestScore

\* the lines an early exit at 95 points would score: up to the first
\* line that reaches 95, all of them if none does
EarlyExitScored ==
    LET near == {i \in 1..Len(SGGS_LINES) : ratio(last_query, SGGS_LINES[i]) >= Pts(95)}
    IN  IF near = {} THEN Len(SGGS_LINES)
        ELSE CHOOSE i \in near : \A j \in near : i <= j

(***************************************************************************)
(* C8: search returns the best candidate when its score is >= threshold,   *)
(* still returns it when the score is >= the decent floor of 55, and       *)
(* reports no match otherwise: no result scores below both.                *)
(***************************************************************************)
C8_ThresholdThenFloor ==
    Searched
        => /\ BestScore >= Pts(last_threshold)
                => last_result = << <<SGGS_LINES[EarliestBest], BestScore>> >>
           /\ (BestScore < Pts(last_threshold) /\ BestScore >= Pts(55))
                => last_result = << <<SGGS_LINES[EarliestBest], BestScore>> >>
           /\ (BestScore < Pts(last_threshold) /\ BestScore < Pts(55))
                => last_result = <<>>
           /\ last_result # <<>>
                => \/ last_result[1][2] >= Pts(last_threshold)
                   \/ last_result[1][2] >= Pts(55)

(***************************************************************************)
(* C9 as stated: a search for a corpus line L returns L with a score of at *)
(* least 95 and stops scoring at the first candidate that reaches 95.      *)
(***************************************************************************)
SelfSearch ==
    /\ Searched
    /\ \E i \in 1..Len(SGGS_LINES) : SGGS_LINES[i] = last_query

LineScore(n) ==
    calculate_weighted_score(fuzz_scores[normalize_text(sggs_lines[n])], last_weights)

C10_DeterministicEarliestTie ==
    /\ Searched /\ last_result # <<>>
         => last_result[1] = <<SGGS_LINES[EarliestBest], BestScore>>
    /\ op = "search_with_weights"
         => /\ \A scoring \in Sampled(prefilter(sggs_lines, normalize_text(tool_query), 0)) :
                  search_with_weights(scoring, fuzz_scores, last_weights, last_top_k)
                      = last_results
            /\ \A k \in 1..Len(last_results) :
                  \A n \in 1..(last_results[k].line_number - 1) :
                      \/ Len(normalize_text(sggs_lines[n])) < 3
                      \/ \A c \in 1..Len(last_scoring) : last_scoring[c].i # n - 1
                      \/ LineScore(n) # last_results[k].weighted_score
                      \/ \E j \in 1..(k - 1) : last_results[j].line_number = n

\* fuzzy_search_sggs alone breaks ties by the earliest line
FuzzySearchEarliestTie ==
    Searched /\ last_result # <<>>
        => last_result[1] = <<SGGS_LINES[EarliestBest], BestScore>>

(***************************************************************************)
(* C11: a search with an empty or whitespace-only query returns the empty  *)
(* result at once: no corpus line is scored, and the call returns (it does *)
(* not raise) whatever the corpus and the threshold.                       *)
(***************************************************************************)
C11_BlankQueryNoMatch ==
    (op = "fuzzy_search_sggs" /\ strip(last_query) = <<>>)
        => /\ last_result = <<>>
           /\ last_scored = 0

C11_Witness ==
    /\ op = "fuzzy_search_sggs"
    /\ SGGS_LOADED
    /\ Len(SGGS_LINES) = MaxLines
    /\ last_query = <<Blank>>
    /\ last_result = <<>>
    /\ last_scored = 0

(***************************************************************************)
(* C12: component scores being in [0,100], every score a search returns    *)
(* and every weighted score calculate_weighted_score computes is in        *)
(* [0,100].                                                                *)
(***************************************************************************)
\* the weighted scores the last search_with_weights computed
WeightedScores ==
    {calculate_weighted_score(fuzz_scores[last_scoring[c].line_norm], last_weights) :
        c \in 1..Len(last_scoring)}

\* the component scores the scorers gave are all in [0,100]
ComponentsInRange ==
    \A n \in DOMAIN fuzz_scores : \A m \in Methods :
        fuzz_scores[n][m] >= 0 /\ fuzz_scores[n][m] <= 100

C12_ScoresInRange ==
    /\ op = "fuzzy_search_sggs"
         => \A k \in 1..Len(last_result) :
                last_result[k][2] >= Pts(0) /\ last_result[k][2] <= Pts(100)
    /\ (op = "search_with_weights" /\ ComponentsInRange)
         => /\ \A w \in WeightedScores : w >= WPts(0) /\ w <= WPts(100)
            /\ \A k \in 1..Len(last_results) :
                  /\ last_results[k].weighted_score >= WPts(0)
                  /\ last_results[k].weighted_score <= WPts(100)

\* the scores fuzzy_search_sggs returns are in [0,100]
FuzzySearchScoresInRange ==
    op = "fuzzy_search_sggs"
        => \A k \in 1..Len(last_result) :
               last_result[k][2] >= Pts(0) /\ last_result[k][2] <= Pts(100)

\* with weights that are all >= 0 the weighted scores are in [0,100]
NonNegativeWeightsInRange ==
    (op = "search_with_weights" /\ \A m \in DOMAIN last_weights : last_weights[m] >= 0)
        => \A w \in WeightedScores : w >= WPts(0) /\ w <= WPts(100)

(***************************************************************************)
(* C13: the span search returns never scores below its anchor line taken   *)
(* alone: the one-line window of every anchor is among the windows scored, *)
(* and a span replaces the result only if it scores higher.                *)
(***************************************************************************)
C13_SpanAtLeastAnchor ==
    (op = "search" /\ engine_result # NoResult)
        => /\ engine_result.score >= span_score[<<engine_result.anchor, engine_result.anchor>>]
           /\ engine_result.score = span_score[<<engine_result.start, engine_result.end>>]
           /\ engine_result.start <= engine_result.anchor
           /\ engine_result.anchor <= engine_result.end

\* a span of several lines won, built on an anchor that is not the best line
C13_Witness ==
    /\ op = "search"
    /\ engine_result # NoResult
    /\ engine_result.end > engine_result.start
    /\ engine_result.score > span_score[<<engine_result.anchor, engine_result.anchor>>]
    /\ \E i \in 1..corpus_size :
          span_score[<<i, i>>] > span_score[<<engine_result.anchor, engine_result.anchor>>]

(***************************************************************************)
(* C14 as stated: whenever a query word is an index token, every line of   *)
(* that token's posting set is among the candidate lines, whatever the     *)
(* number of words of the query.                                           *)
(***************************************************************************)
\* the words of the query that are index tokens
IndexedWords ==
    {query_words[k] : k \in {j \in 1..Len(query_words) : query_words[j] \in DOMAIN inverted_index}}

AnsweredWithMatch ==
    /\ op = "websocket_endpoint"
    /\ response # NoResponse
    /\ response.best_sggs_match # NoLine

\* the best partial_ratio score among the matcher's entries
BestMatcherScore ==
    CHOOSE b \in {matcher_scores[i] : i \in DOMAIN matcher_scores} :
        \A i \in DOMAIN matcher_scores : matcher_scores[i] <= b

C15_InclusiveThresholds ==
    /\ AnsweredWithMatch
         => /\ response.best_sggs_score = Pts(last_threshold) => response.sggs_match_found
            /\ response.sggs_match_found <=> response.best_sggs_score >= Pts(last_threshold)
    /\ op = "fuzzy_match_local_sggs"
         => /\ BestMatcherScore = MATCHER_THRESHOLD
                 => /\ matcher_result # NoEntry
                    /\ matcher_scores[matcher_result.index] = MATCHER_THRESHOLD
            /\ matcher_result # NoEntry <=> BestMatcherScore >= MATCHER_THRESHOLD

\* a best score equal to the threshold was accepted by the handler
C15_Witness ==
    /\ AnsweredWithMatch
    /\ response.best_sggs_score = Pts(last_threshold)
    /\ response.sggs_match_found
    /\ Len(SGGS_LINES) = MaxLines

\* a best score equal to the threshold was accepted by the matcher
MatcherAcceptsEqual ==
    /\ op = "fuzzy_match_local_sggs"
    /\ BestMatcherScore = MATCHER_THRESHOLD
    /\ matcher_result # NoEntry

(***************************************************************************)
(* Evaluations: what the tracker claims speak of.                          *)
(***************************************************************************)
\* the last call was a process_chunk that, Confirmed and with at least
\* INTERIM_WORD_CHECK words buffered, evaluated a window
Evaluated ==
    /\ op = "process_chunk"
    /\ buffered >= INTERIM_WORD_CHECK
    /\ Len(calls) = 2
    /\ calls[1].fn = "local_search"
    /\ calls[2].fn = "global_search"

\* the local search scored below its threshold, or matched nothing
LocalBelow ==
    \/ calls[1].result = NoResult
    \/ calls[1].result.score < LOCAL_THRESHOLD

\* the global search matched another section than the anchor at or above
\* its threshold
GlobalElsewhere ==
    /\ calls[2].result # NoResult
    /\ calls[2].result.shabad_id # calls[1].shabad_id
    /\ calls[2].result.score >= GLOBAL_THRESHOLD

(***************************************************************************)
(* C16: in Confirmed state with at least N words buffered, a window whose  *)
(* local score is >= 60 is valid whatever the global search returns: the   *)
(* failure counter is 0 afterwards and the call returns 'tracking' with    *)
(* the anchor.                                                             *)
(***************************************************************************)
C16_LocalOverride ==
    (/\ Evaluated
     /\ calls[1].result # NoResult
     /\ calls[1].result.score >= LOCAL_THRESHOLD)
        => /\ invalid_run = 0
           /\ failure_counter = 0
           /\ confirmed
           /\ current_shabad_id = calls[1].shabad_id
           /\ ret = [status |-> "tracking", shabad_id |-> calls[1].shabad_id]

\* a local score of exactly 60 against a global match elsewhere at >= 65
C16_Witness ==
    /\ Evaluated
    /\ calls[1].result # NoResult
    /\ calls[1].result.score = LOCAL_THRESHOLD
    /\ GlobalElsewhere
    /\ invalid_run = 0
    /\ ret.status = "tracking"

\* the failure counter counts one more invalid evaluation: it is one higher,
\* or, reaching MAX_FAILURES, the tracker is reset and drift is reported
CountedInvalid ==
    IF failure_counter + 1 >= MAX_FAILURES
    THEN ret'.status = "drift_detected" /\ failure_counter' = 0 /\ ~confirmed'
    ELSE ret'.status = "tracking" /\ failure_counter' = failure_counter + 1

(***************************************************************************)
(* C17 as stated: in Confirmed state with at least N words buffered, a     *)
(* window whose global search matches another section than the anchor with *)
(* score >= 65 is judged invalid and increments the failure counter.       *)
(***************************************************************************)
C17_GlobalElsewhereInvalid ==
    [][(Evaluated' /\ GlobalElsewhere')
        => /\ invalid_run' = invalid_run + 1
           /\ CountedInvalid]_vars

(***************************************************************************)
(* C17 amended: such a window is judged invalid and increments the failure *)
(* counter when, besides, its local search matches nothing or scores below *)
(* 60.                                                                     *)
(***************************************************************************)
C17_DriftInvalid ==
    [][(Evaluated' /\ GlobalElsewhere' /\ LocalBelow')
        => /\ invalid_run' = invalid_run + 1
           /\ CountedInvalid]_vars

\* a second failure in a row counted for a match elsewhere
C17_Witness ==
    /\ Evaluated
    /\ GlobalElsewhere
    /\ LocalBelow
    /\ calls[2].result.score = GLOBAL_THRESHOLD
    /\ failure_counter = 2
    /\ ret.status = "tracking"

(***************************************************************************)
(* C18: in Confirmed state with at least N words buffered, a window whose  *)
(* local search matches nothing or scores below 60 is judged invalid even  *)
(* when the global search returns the anchor section, at any score, or     *)
(* nothing: the failure is counted, or reported as drift.                  *)
(***************************************************************************)
C18_ConservativeDefault ==
    (/\ Evaluated
     /\ LocalBelow
     /\ \/ calls[2].result = NoResult
        \/ calls[2].result.shabad_id = calls[1].shabad_id)
        => /\ invalid_run >= 1
           /\ \/ ret.status = "drift_detected" /\ ~confirmed
              \/ /\ ret.status = "tracking"
                 /\ failure_counter = invalid_run

\* the global search agrees with the anchor at >= 65 and the local search
\* found a line below 60: invalid
C18_Witness ==
    /\ Evaluated
    /\ calls[1].result # NoResult
    /\ calls[1].result.score < LOCAL_THRESHOLD
    /\ calls[2].result # NoResult
    /\ calls[2].result.shabad_id = calls[1].shabad_id
    /\ calls[2].result.score >= GLOBAL_THRESHOLD
    /\ failure_counter = 1
    /\ ret.status = "tracking"

(***************************************************************************)
(* C19: the failure counter is the number of the latest successive         *)
(* evaluated chunks judged invalid since confirmation: a valid evaluation  *)
(* sets it to 0, an invalid one adds 1, and 'drift_detected' is returned   *)
(* exactly when MAX_FAILURES successive evaluations were invalid.          *)
(***************************************************************************)
C19_ConsecutiveFailures ==
    /\ confirmed => failure_counter = invalid_run
    /\ invalid_run <= MAX_FAILURES
    /\ Evaluated
         => /\ ret.status = "drift_detected" <=> invalid_run = MAX_FAILURES
            /\ invalid_run = 0 => failure_counter = 0 /\ ret.status = "tracking"
    /\ (op = "process_chunk" /\ ret.status = "drift_detected")
         => Evaluated /\ invalid_run = MAX_FAILURES

\* drift reported at the third invalid evaluation in a row
C19_Witness ==
    /\ Evaluated
    /\ ret.status = "drift_detected"
    /\ invalid_run = MAX_FAILURES
    /\ failure_counter = 0
    /\ ~confirmed

\* a valid evaluation: the count is back at 0
ValidRestartsCount ==
    /\ Evaluated
    /\ invalid_run = 0
    /\ failure_counter = 0
    /\ buffered = MaxBuf

(***************************************************************************)
(* C20: in Confirmed state, a chunk after whose words the buffer holds     *)
(* fewer than N = 8 words makes no search, leaves the anchor and the       *)
(* failure counter as they were and returns 'tracking'.                    *)
(***************************************************************************)
C20_NoEvaluationBelowN ==
    [][(confirmed /\ op' = "process_chunk" /\ buffered' < INTERIM_WORD_CHECK)
        => /\ calls' = <<>>
           /\ current_shabad_id' = current_shabad_id
           /\ failure_counter' = failure_counter
           /\ invalid_run' = invalid_run
           /\ confirmed'
           /\ Len(word_buffer') = buffered'
           /\ ret' = [status |-> "tracking", shabad_id |-> current_shabad_id]]_vars

\* a Confirmed tracker with one word short of N after a chunk with words
C20_Witness ==
    /\ op = "process_chunk"
    /\ confirmed
    /\ ret.status = "tracking"
    /\ calls = <<>>
    /\ buffered = INTERIM_WORD_CHECK - 1
    /\ Len(word_buffer) = buffered

(***************************************************************************)
(* C21: a chunk processed Unconfirmed that does not confirm ('no_match' or *)
(* 'pending_confirmation') leaves the whole tracker state unchanged:       *)
(* anchor, confirmed flag, failure counter and word buffer; words are      *)
(* appended to the buffer only by chunks processed in Confirmed state.     *)
(***************************************************************************)
C21_UnconfirmedChunkChangesNothing ==
    [][(/\ ~confirmed
        /\ op' = "process_chunk"
        /\ ret'.status \in {"no_match", "pending_confirmation"})
        => /\ current_shabad_id' = current_shabad_id
           /\ confirmed' = confirmed
           /\ failure_counter' = failure_counter
           /\ word_buffer' = word_buffer]_vars

\* what does hold of such a chunk: anchor, flag and counter stay, and the
\* chunk's words are appended
UnconfirmedChunkAppends ==
    [][(/\ ~confirmed
        /\ op' = "process_chunk"
        /\ ret'.status \in {"no_match", "pending_confirmation"})
        => /\ current_shabad_id' = current_shabad_id
           /\ confirmed' = confirmed
           /\ failure_counter' = failure_counter
           /\ word_buffer' = word_buffer \o split(calls'[1].query)]_vars

(***************************************************************************)
(* C22: candidate retrieval is an ordered fallback: the fuzzy-token stage  *)
(* answers only when the exact-token stage yields no line, the full scan   *)
(* over every corpus line only when both earlier stages yield nothing (an  *)
(* index without tokens included), and a query with a word that is an      *)
(* index token is always answered by the exact-token stage.                *)
(***************************************************************************)
C22_OrderedFallback ==
    op = "get_candidate_lines_from_index"
        => LET exact == exact_token_stage(inverted_index, query_words, 1, {})
               fuzzy == fuzzy_token_stage(inverted_index, query_words)
           IN  /\ candidate_lines.stage \in {1, 2, 3}
               /\ candidate_lines.stage = 1
                    => exact # {} /\ candidate_lines.lines = exact
               /\ candidate_lines.stage = 2
                    => /\ exact = {} /\ IndexedWords = {}
                       /\ fuzzy # {} /\ candidate_lines.lines = fuzzy
               /\ candidate_lines.stage = 3
                    => /\ exact = {} /\ IndexedWords = {}
                       /\ fuzzy = {}
                       /\ candidate_lines.lines = IndexLineIds
               /\ IndexedWords # {} => candidate_lines.stage = 1
               /\ DOMAIN inverted_index = {} => candidate_lines.stage = 3

\* the misheard "sata" finds the token "sat" in the fuzzy-token stage, no
\* word of the query being a token
C22_Witness ==
    /\ op = "get_candidate_lines_from_index"
    /\ query_words = <<"sata", "sa", "sata">>
    /\ "sat" \in DOMAIN inverted_index
    /\ candidate_lines.stage = 2
    /\ candidate_lines.lines = inverted_index["sat"]

\* no stage finds a line (the two-letter "sa" is not scored): the full scan
FullScanReached ==
    /\ op = "get_candidate_lines_from_index"
    /\ query_words = <<"sa", "nam">>
    /\ DOMAIN inverted_index = {"sat"}
    /\ candidate_lines.stage = 3
    /\ candidate_lines.lines = IndexLineIds

(***************************************************************************)
(* Index builders: what the claims speak of.                               *)
(***************************************************************************)
\* the line ids of the posting sets of the two indexes
BuiltIds == UNION {built_index[t] : t \in DOMAIN built_index}
CreatedIds ==
    UNION {{created_index[t][k] : k \in 1..Len(created_index[t])} : t \in DOMAIN created_index}

(***************************************************************************)
(* C23: in every index the builders produce (build_inverted_index,         *)
(* create_inverted_index) each line id of a posting set is an integer >= 1 *)
(* that identifies a line present in the line map, or in the file read.    *)
(***************************************************************************)
C23_LineIdsFromOne ==
    /\ \A id \in BuiltIds : id >= 1 /\ id \in DOMAIN built_line_map
    /\ \A id \in CreatedIds : id >= 1 /\ id \in 1..Len(input_file)

\* what holds of build_inverted_index: ids count from 0, each is in the line
\* map, and its line holds the token once cleaned
BuiltIdsFromZero ==
    \A t \in DOMAIN built_index :
        \A id \in built_index[t] :
            /\ id \in 0..(Len(input_file) - 1)
            /\ id \in DOMAIN built_line_map
            /\ built_line_map[id] = strip(input_file[id + 1])
            /\ t \in word_set(clean_line(built_line_map[id]))

\* what holds of create_inverted_index: ids count from 1 and each is the
\* number of a line of the file that holds the token
CreatedIdsFromOne ==
    \A t \in DOMAIN created_index :
        \A k \in 1..Len(created_index[t]) :
            /\ created_index[t][k] \in 1..Len(input_file)
            /\ t \in word_set(input_file[created_index[t][k]])
            /\ k > 1 => created_index[t][k - 1] < created_index[t][k]

\* both builders have indexed the first line of the file
FirstLineIndexed ==
    /\ 0 \in BuiltIds
    /\ 1 \in CreatedIds
    /\ Len(input_file) = MaxFileLines

\* the orders in which n numbered lines may be processed
Orders(n) == {p \in [1..n -> 1..n] : \A i, j \in 1..n : p[i] = p[j] => i = j}

\* the numbered lines taken in the order p
InOrder(entries, p) == [i \in 1..Len(entries) |-> entries[p[i]]]

\* the posting set of each token of the created index
CreatedSets ==
    [t \in DOMAIN created_index |->
        {created_index[t][k] : k \in 1..Len(created_index[t])}]

(***************************************************************************)
(* C24: building the token index is deterministic and order-independent:   *)
(* processing the same numbered lines in any order yields the same mapping *)
(* from token to posting set, for each of the two builders.                *)
(***************************************************************************)
C24_OrderIndependent ==
    \A p \in Orders(Len(input_file)) :
        /\ op = "build_inverted_index"
             => LET again == build_lines(InOrder(enumerate(input_file, 0), p), 1, <<>>, <<>>)
                IN  /\ again.inverted_index = built_index
                    /\ again.line_map = built_line_map
                    /\ build_inverted_index(input_file).inverted_index = built_index
        /\ op = "create_inverted_index"
             => LET again == create_lines(InOrder(enumerate(input_file, 1), p), 1, <<>>)
                IN  /\ DOMAIN again = DOMAIN created_index
                    /\ \A t \in DOMAIN again : again[t] = CreatedSets[t]
                    /\ create_inverted_index(input_file) = created_index

\* a token on two different lines of a full file: its posting set has both,
\* in both indexes
C24_Witness ==
    /\ op = "create_inverted_index"
    /\ Len(input_file) = MaxFileLines
    /\ input_file[1] # input_file[2]
    /\ <<"a">> \in DOMAIN built_index
    /\ {0, 1} \subseteq built_index[<<"a">>]
    /\ <<"a">> \in DOMAIN created_index
    /\ {1, 2} \subseteq CreatedSets[<<"a">>]

(***************************************************************************)
(* C25: after every process_chunk or reset call the failure counter is in  *)
(* 0..MAX_FAILURES - 1 (it never rests at MAX_FAILURES), and it is 0       *)
(* whenever the tracker is Unconfirmed.                                    *)
(***************************************************************************)
C25_CounterBelowMax ==
    /\ failure_counter \in 0..(MAX_FAILURES - 1)
    /\ ~confirmed => failure_counter = 0

\* the counter at its highest: one failure short of the drift
C25_Witness ==
    /\ Evaluated
    /\ confirmed
    /\ failure_counter = MAX_FAILURES - 1
    /\ ENABLED (ProcessChunk /\ ret'.status = "drift_detected" /\ failure_counter' = 0)

(***************************************************************************)
(* C26: in every reachable tracker state the confirmed flag is true if and *)
(* only if an anchor is set (current_shabad_id is not None), the global    *)
(* search answering no match or a result with a section id.                *)
(***************************************************************************)
C26_ConfirmedIffAnchor ==
    /\ confirmed <=> current_shabad_id # None
    /\ confirmed => current_shabad_id \in ShabadIds

\* the anchor the local search was given is gone with the flag after a drift
C26_Witness ==
    /\ op = "process_chunk"
    /\ ret.status = "drift_detected"
    /\ Len(calls) = 2
    /\ calls[1].shabad_id \in ShabadIds
    /\ current_shabad_id = None
    /\ ~confirmed

\* flag and anchor set together
AnchoredWhenConfirmed ==
    /\ op = "process_chunk"
    /\ ret.status = "confirmed"
    /\ confirmed
    /\ current_shabad_id = ret.shabad_id

(***************************************************************************)
(* C27: while the tracker stays Confirmed the anchor never changes; a set  *)
(* anchor changes only to None (a drift reset, or reset), so the tracker   *)
(* gets from one section to another only through Unconfirmed and a new     *)
(* confirmation by two agreeing global searches.                           *)
(***************************************************************************)
C27_AnchorStable ==
    [][/\ (confirmed /\ confirmed') => current_shabad_id' = current_shabad_id
       /\ current_shabad_id # None
            => current_shabad_id' \in {current_shabad_id, None}
       /\ (current_shabad_id' # current_shabad_id /\ current_shabad_id # None)
            => ~confirmed' /\ (op' = "reset" \/ ret'.status = "drift_detected")
       /\ (current_shabad_id' # current_shabad_id /\ current_shabad_id' # None)
            => /\ ~confirmed /\ current_shabad_id = None
               /\ TwoGlobalSearches' /\ BothAgree'
               /\ ret'.status = "confirmed"
               /\ current_shabad_id' = calls'[1].result.shabad_id]_vars

\* a Confirmed tracker keeps its anchor through an evaluation whose global
\* search matched another section at or above its threshold
C27_Witness ==
    /\ Evaluated
    /\ GlobalElsewhere
    /\ confirmed
    /\ current_shabad_id = calls[1].shabad_id
    /\ current_shabad_id # calls[2].result.shabad_id
    /\ ret = [status |-> "tracking", shabad_id |-> current_shabad_id]

(***************************************************************************)
(* C28: in Confirmed state the verdict on a chunk, and with it the next    *)
(* tracker state and the returned status, depends on the local search      *)
(* alone: the window is valid iff fewer than N words are buffered or the   *)
(* local search matched with score >= 60, and the same chunk with the same *)
(* local answer gives the same state and status whatever the global search *)
(* answers.                                                                *)
(***************************************************************************)
C28_GlobalAnswerIrrelevant ==
    /\ Evaluated => (invalid_run = 0 <=> ~LocalBelow)
    /\ confirmed
         => \A chunk \in Chunks, l \in LocalResults(current_shabad_id), g \in GlobalResults :
              LET ext == [Tracker EXCEPT !.word_buffer = @ \o split(chunk)]
                  this == process_chunk(Tracker, chunk, l, g)
                  other == process_chunk(Tracker, chunk, l, NoResult)
              IN  /\ validate_progression(ext, l, g)
                       <=> \/ Len(ext.word_buffer) < INTERIM_WORD_CHECK
                           \/ l # NoResult /\ l.score >= LOCAL_THRESHOLD
                  /\ this.t = other.t
                  /\ this.ret = other.ret

\* the third invalid evaluation in a row, reported as drift although the
\* global search matched the anchor at or above its threshold
C28_Witness ==
    /\ Evaluated
    /\ LocalBelow
    /\ calls[2].result # NoResult
    /\ calls[2].result.shabad_id = calls[1].shabad_id
    /\ calls[2].result.score >= GLOBAL_THRESHOLD
    /\ invalid_run = MAX_FAILURES
    /\ ret.status = "drift_detected"

(***************************************************************************)
(* C29: in every reachable Confirmed state, failure_counter > 0 implies    *)
(* the word buffer holds at least N = 8 words, so every further chunk is   *)
(* evaluated and the 'not enough words' branch cannot erase failures       *)
(* already counted.                                                        *)
(***************************************************************************)
C29_FailuresNeedFullWindow ==
    (confirmed /\ failure_counter > 0)
        => /\ Len(word_buffer) >= INTERIM_WORD_CHECK
           /\ \A chunk \in Chunks :
                validate_calls([Tracker EXCEPT !.word_buffer = @ \o split(chunk)],
                               NoResult, NoResult) # <<>>

\* a first failure counted on a window of exactly N words
C29_Witness ==
    /\ Evaluated
    /\ confirmed
    /\ failure_counter = 1
    /\ invalid_run = 1
    /\ Len(word_buffer) = INTERIM_WORD_CHECK

(***************************************************************************)
(* Connections: what the claim speaks of.                                  *)
(***************************************************************************)
\* the flag of a connection, as manager.top_result_found.get(ws, False)
Flag(ws) == IF ws \in DOMAIN top_result_found THEN top_result_found[ws] ELSE FALSE

(***************************************************************************)
(* C30: the top_result_found flag of a connection is a latch: it is false  *)
(* on connect, becomes true with the first message of the connection whose *)
(* BaniDB lookup returns results, stays true until disconnect, and while   *)
(* it is true every message of the connection is skipped: no search, no    *)
(* search_result message; a step of one connection leaves the flags of the *)
(* others as they are.                                                     *)
(***************************************************************************)
C30_TopResultLatch ==
    [][\A ws \in Connections :
          /\ (ws \notin DOMAIN top_result_found /\ ws \in DOMAIN top_result_found')
                => /\ ~top_result_found'[ws]
                   /\ op' = "connect" /\ websocket' = ws
          /\ (Flag(ws) /\ ws \in DOMAIN top_result_found') => top_result_found'[ws]
          /\ (ws \in DOMAIN top_result_found /\ ws \notin DOMAIN top_result_found')
                => op' = "disconnect" /\ websocket' = ws
          /\ (op' = "websocket_endpoint" /\ websocket' = ws /\ ~Flag(ws))
                => /\ sent'
                   /\ response'.type = "search_result"
                   /\ Flag(ws)' <=> response'.results # <<>>
          /\ (op' = "websocket_endpoint" /\ websocket' = ws /\ Flag(ws))
                => /\ ~sent'
                   /\ response' = response
                   /\ top_result_found' = top_result_found
                   /\ \A first \in BaniDBResults, fallback \in BaniDBResults :
                        websocket_endpoint(TRUE, SGGS_LOADED, SGGS_LINES, last_query,
                                           last_threshold, first, fallback)
                            = [top_result_found |-> TRUE, sent |-> FALSE,
                               response |-> NoResponse]
          /\ websocket' # ws
                => /\ ws \in DOMAIN top_result_found' <=> ws \in DOMAIN top_result_found
                   /\ Flag(ws)' = Flag(ws)]_vars

\* a message of a latched connection was skipped while the other connection
\* is open and still searching
C30_Witness ==
    /\ op = "websocket_endpoint"
    /\ websocket = "ws1"
    /\ ~sent
    /\ Flag("ws1")
    /\ "ws2" \in DOMAIN top_result_found
    /\ ~Flag("ws2")
    /\ response # NoResponse
    /\ response.results # <<>>
====
